---- MODULE Spec2Model ----
(***************************************************************************)
(* Model of the target execution engine of zdoom-macos-deps (package aedi):*)
(* source acquisition (aedi/state.py), the multi-architecture merge and    *)
(* the run lifecycle (aedi/builder.py) and the prefix symlink farm         *)
(* (aedi/utility.py).                                                      *)
(*                                                                         *)
(* Paths are sequences of path components.  File contents are sequences of *)
(* byte values.  Every handler is one operator computed the way the code   *)
(* computes it; the exit statuses of the external tools it starts are an   *)
(* input of the operator (an "oracle" record chosen by the action).        *)
(***************************************************************************)
EXTENDS Integers, Sequences, FiniteSets, TLC

VARIABLES
    mode,       \* which part of the engine this behaviour exercises
    fs,         \* the disk: the source area [files, dirs]; for the prefix
                \* [deps, prefix]; for a run [src, trees, dirs, deps, prefix]
    bs,         \* the BuildState in use by source acquisition
    req,        \* the source package the target declares; for a run the
                \* parsed command line and the machine's architecture
    runs,       \* the last two finished acquisition invocations; for a run
                \* the active Builder runs, the innermost last
    log,        \* external tool invocations and engine steps, in order
    srcs,       \* the per-architecture install trees handed to the merge
    out         \* the outcome: of the merge [dst, dirs, raised, done], of
                \* the prefix assembly [pre, raised, done], of a run
                \* [status, target]

vars == <<mode, fs, bs, req, runs, log, srcs, out>>

\* ------------------------------------------------------------------ bounds

\* the install trees handed to the merge hold at most MaxFiles files between them
MaxFiles == 2

\* ------------------------------------------------------------- sequences

Last(s) == s[Len(s)]

IsPrefixOf(p, q) == Len(p) <= Len(q) /\ SubSeq(q, 1, Len(p)) = p

RECURSIVE SeqSum(_)
SeqSum(s) == IF s = <<>> THEN 0 ELSE s[1] * Len(s) + SeqSum(Tail(s))

\* one log entry: an external tool invocation, an engine step or a warning
Ev(kind, name, exit, args) == [kind |-> kind, name |-> name, exit |-> exit, args |-> args]

Tool(name, exit, args) == Ev("tool", name, exit, args)

\* ---------------------------------------------------------------- paths

\* pathlib's "/" with one component: joining "." leaves the path unchanged
Join(p, c) == IF c = "." THEN p ELSE Append(p, c)

\* ----------------------------------------------- archives and checksums

\* A toy archive format: every byte of the archive names one member.
\* Byte 0 is not a member: the archive tool rejects the file.
EntryOf(b) ==
    CASE b = 1 -> <<"pkg", "">>              \* "pkg/"
      [] b = 2 -> <<"pkg", "configure">>     \* "pkg/configure"
      [] b = 3 -> <<"README">>               \* no separator
      [] b = 4 -> <<"other", "f">>           \* a second leading component
      [] b = 5 -> <<".", "pkg", "f">>        \* "./pkg/f"
      [] OTHER -> <<>>

\* the archives a server may answer with / a cache may hold
GoodArchive == <<1, 2>>
MixedArchive == <<3, 2, 4>>
FlatArchive == <<3>>
DotArchive == <<5>>
CorruptArchive == <<0>>

ArchiveData == {GoodArchive, MixedArchive, FlatArchive, DotArchive, CorruptArchive, <<>>}

HexDigits == <<"0", "1", "2", "3", "4", "5", "6", "7", "8", "9", "a", "b", "c", "d", "e", "f">>

\* hashlib.sha256(data).hexdigest(): a digest of the bytes, in lower-case hex
Sha256Hex(data) ==
    LET h == (SeqSum(data) * 7 + Len(data) * 3 + 11) % 256
    IN  <<HexDigits[(h \div 16) + 1], HexDigits[(h % 16) + 1]>>

\* ---------------------------------------------------- the source area

\* a directory of the source area
Dir(kind, complete, applied, branch) ==
    [kind |-> kind, complete |-> complete, applied |-> applied, branch |-> branch]

EmptyFs == [files |-> <<>>, dirs |-> <<>>]

FileExists(f, p) == p \in DOMAIN f.files

DirExists(f, p) == p \in DOMAIN f.dirs

PathExists(f, p) == FileExists(f, p) \/ DirExists(f, p)

PutFile(f, p, data) ==
    [f EXCEPT !.files = [q \in (DOMAIN f.files) \cup {p} |-> IF q = p THEN data ELSE f.files[q]]]

Unlink(f, p) ==
    [f EXCEPT !.files = [q \in (DOMAIN f.files) \ {p} |-> f.files[q]]]

PutDir(f, p, d) ==
    [f EXCEPT !.dirs = [q \in (DOMAIN f.dirs) \cup {p} |-> IF q = p THEN d ELSE f.dirs[q]]]

\* shutil.rmtree(p, ignore_errors=True): p and everything below it
RmTree(f, p) ==
    [files |-> [q \in {x \in DOMAIN f.files : ~IsPrefixOf(p, x)} |-> f.files[q]],
     dirs |-> [q \in {x \in DOMAIN f.dirs : ~IsPrefixOf(p, x)} |-> f.dirs[q]]]

\* os.makedirs(p, exist_ok=True)
MakeDirs(f, p) == IF DirExists(f, p) THEN f ELSE PutDir(f, p, Dir("plain", TRUE, {}, ""))

\* --------------------------------------------- source acquisition steps
\* Every step takes and returns a context c = [fs, log, raised]: the disk,
\* the invocations so far and whether an exception is propagating.

Ctx(f, lg) == [fs |-> f, log |-> lg, raised |-> FALSE]

Raise(c) == [c EXCEPT !.raised = TRUE]

Note(c, e) == [c EXCEPT !.log = Append(@, e)]

ArchiveName == "a.tar"

PatchNames == {"p1", "p2"}

\* the patch files present under patch/
PatchFiles == {"p1", "p2"}

\* the mutant: the cached archive is ignored and the package fetched again
ReadSourcePackageAlwaysFetch(c, source, o) ==
    LET filepath == Append(source, ArchiveName)
    IN  [c |-> Note([c EXCEPT !.fs = PutFile(@, filepath, o.netData)],
                    Ev("net", "urlopen", 0, <<filepath, o.netData>>)),
         data |-> o.netData, filepath |-> filepath]

\* BuildState._read_source_package: (c, data, filepath)
ReadSourcePackage(c, source, o) ==
    LET filepath == Append(source, ArchiveName)
    IN  IF FileExists(c.fs, filepath)
        THEN [c |-> c, data |-> c.fs.files[filepath], filepath |-> filepath]
        ELSE CASE o.net = "urlerror" ->
                    \* urlopen raises before the file is opened
                    [c |-> Raise(Note(c, Ev("net", "urlopen", 1, <<filepath>>))),
                     data |-> <<>>, filepath |-> filepath]
               [] o.net = "ioerror" ->
                    \* IOError inside the try: the file is unlinked, then re-raised
                    [c |-> Raise(Note(c, Ev("net", "urlopen", 1, <<filepath>>))),
                     data |-> <<>>, filepath |-> filepath]
               [] o.net = "readerror" ->
                    \* response.read() raises an exception that is no IOError:
                    \* the file opened for writing stays, empty
                    [c |-> Raise(Note([c EXCEPT !.fs = PutFile(@, filepath, <<>>)],
                                      Ev("net", "urlopen", 1, <<filepath>>))),
                     data |-> <<>>, filepath |-> filepath]
               [] OTHER ->
                    [c |-> Note([c EXCEPT !.fs = PutFile(@, filepath, o.netData)],
                                Ev("net", "urlopen", 0, <<filepath, o.netData>>)),
                     data |-> o.netData, filepath |-> filepath]

\* the mutant: a mismatch is reported but the file is kept
VerifyChecksumKeepFile(c, checksum, data, filepath) ==
    IF Sha256Hex(data) # checksum
    THEN Raise(Note(c, Ev("step", "verify", 1, <<filepath, data>>)))
    ELSE Note(c, Ev("step", "verify", 0, <<filepath, data>>))

\* BuildState._verify_checksum
VerifyChecksum(c, checksum, data, filepath) ==
    IF Sha256Hex(data) # checksum
    THEN Raise(Note([c EXCEPT !.fs = Unlink(@, filepath)],
                    Ev("step", "verify", 1, <<filepath, data>>)))
    ELSE Note(c, Ev("step", "verify", 0, <<filepath, data>>))

\* tar -tf: exit status and the listing split at newlines (a last empty line)
TarListExit(data, o) == IF \E i \in 1..Len(data) : EntryOf(data[i]) = <<>> THEN 1 ELSE o.tarList

TarListing(data) == [i \in 1..Len(data) |-> EntryOf(data[i])] \o << <<"">> >>

\* the loop over the listing: the first path holding a separator, cut at it;
\* "" when there is none (None in the code; both are falsy)
RECURSIVE FirstPathComponent(_)
FirstPathComponent(paths) ==
    IF paths = <<>> THEN ""
    ELSE IF Len(paths[1]) >= 2 THEN paths[1][1]
    ELSE FirstPathComponent(Tail(paths))

\* the leading components tar -xf creates below the source directory
RootOf(e) == IF e[1] = "." THEN e[2] ELSE e[1]

ExtractRoots(data) ==
    {RootOf(EntryOf(data[i])) : i \in {j \in 1..Len(data) : Len(EntryOf(data[j])) >= 2}}

\* tar -xf in the source directory; a failing run leaves its roots incomplete
Extract(f, source, data, ok) ==
    LET roots == {Append(source, r) : r \in ExtractRoots(data)}
    IN  [f EXCEPT !.dirs = [q \in (DOMAIN f.dirs) \cup roots |->
                              IF q \in roots THEN Dir("extracted", ok, {}, "") ELSE f.dirs[q]]]

\* BuildState._unpack_source_package: (c, first_path_component, extract_path)
UnpackSourcePackage(c, source, filepath, o) ==
    LET data == c.fs.files[filepath]
        ex == TarListExit(data, o)
        c1 == Note(c, Tool("tar-tf", ex, <<filepath>>))
        first == FirstPathComponent(TarListing(data))
        extract_path == Join(source, first)
    IN  IF ex # 0 THEN [c |-> Raise(c1), first |-> "", extract_path |-> source]
        ELSE IF first = "" THEN [c |-> Raise(c1), first |-> "", extract_path |-> source]
        ELSE IF PathExists(c1.fs, extract_path)
        THEN [c |-> c1, first |-> first, extract_path |-> extract_path]
        ELSE LET c2 == Note(c1, Tool("tar-xf", o.tarX, <<filepath>>))
             IN  IF o.tarX = 0
                 THEN [c |-> [c2 EXCEPT !.fs = Extract(@, source, data, TRUE)],
                       first |-> first, extract_path |-> extract_path]
                 ELSE [c |-> Raise([c2 EXCEPT !.fs = RmTree(Extract(@, source, data, FALSE),
                                                           extract_path)]),
                       first |-> first, extract_path |-> extract_path]

\* patch --dry-run: non-zero when the patch is already in the tree; otherwise
\* the tool decides (it also exits non-zero when the patch does not fit)
PatchDryRunExit(d, patch, o) ==
    IF patch \in d.applied THEN 1
    ELSE IF patch \in o.dryOk THEN 0 ELSE 1

\* the mutant: the patch is applied whatever the dry run says
ApplySourcePatchAlways(c, extract_path, patch, o) ==
    IF patch \notin PatchFiles THEN Raise(c)
    ELSE LET d == c.fs.dirs[extract_path]
             dry == PatchDryRunExit(d, patch, o)
             c1 == Note(c, Tool("patch-dry-run", dry, <<extract_path, <<patch>>>>))
             ex == IF patch \in o.applyFail THEN 1 ELSE 0
             c2 == Note(c1, Tool("patch", ex, <<extract_path, <<patch>>>>))
         IN  IF ex = 0
             THEN [c2 EXCEPT !.fs = PutDir(@, extract_path,
                                            [d EXCEPT !.applied = @ \cup {patch}])]
             ELSE Raise(c2)

\* BuildState._apply_source_patch
ApplySourcePatch(c, extract_path, patch, o) ==
    IF patch \notin PatchFiles THEN Raise(c)    \* assert patch_path.exists()
    ELSE LET d == c.fs.dirs[extract_path]
             dry == PatchDryRunExit(d, patch, o)
             c1 == Note(c, Tool("patch-dry-run", dry, <<extract_path, <<patch>>>>))
         IN  IF dry # 0 THEN c1
             ELSE LET ex == IF patch \in o.applyFail THEN 1 ELSE 0
                      c2 == Note(c1, Tool("patch", ex, <<extract_path, <<patch>>>>))
                  IN  IF ex = 0
                      THEN [c2 EXCEPT !.fs = PutDir(@, extract_path,
                                                     [d EXCEPT !.applied = @ \cup {patch}])]
                      ELSE Raise(c2)

\* for patch in patches: self._apply_source_patch(extract_path, patch)
RECURSIVE ApplySourcePatches(_, _, _, _)
ApplySourcePatches(c, extract_path, names, o) ==
    IF names = <<>> \/ c.raised THEN c
    ELSE ApplySourcePatches(ApplySourcePatch(c, extract_path, names[1], o),
                            extract_path, Tail(names), o)

\* the mutant: the paths are adjusted as soon as the archive is unpacked
AdjustPathsEarly(st, up, raised) ==
    IF up.c.raised THEN st
    ELSE [st EXCEPT !.source = up.extract_path, !.build_path = Join(st.build_path, up.first)]

\* download_source: 'Adjust source and build paths according to extracted
\* source code', the last statements, not reached by an exception
AdjustPaths(st, up, raised) ==
    IF raised THEN st
    ELSE [st EXCEPT !.source = up.extract_path, !.build_path = Join(st.build_path, up.first)]

\* BuildState.download_source: (c, st)
DownloadSource(c, st, r, o) ==
    IF st.external_source THEN [c |-> c, st |-> st]
    ELSE
    LET c0 == [c EXCEPT !.fs = MakeDirs(@, st.source)]
        rd == ReadSourcePackage(c0, st.source, o)
        c1 == IF rd.c.raised THEN rd.c
              ELSE VerifyChecksum(rd.c, r.checksum, rd.data, rd.filepath)
        up == IF c1.raised THEN [c |-> c1, first |-> "", extract_path |-> st.source]
              ELSE UnpackSourcePackage(c1, st.source, rd.filepath, o)
        c2 == IF up.c.raised THEN up.c
              ELSE IF r.patches.names = <<>> THEN up.c     \* not patches
              ELSE IF r.patches.type = "str"
                   THEN ApplySourcePatch(up.c, up.extract_path, r.patches.names[1], o)
              ELSE IF r.patches.type = "seq"
                   THEN ApplySourcePatches(up.c, up.extract_path, r.patches.names, o)
              ELSE Raise(up.c)                             \* assert False
    IN  [c |-> c2, st |-> AdjustPaths(st, up, c2.raised)]

\* ------------------------------------------------- install trees, merge
\* An install tree is a function from the relative paths of its files to
\* their bytes; a directory exists where a file lies below it.  The trees
\* handed to the merge hold no path that is a file in one tree and a
\* directory in another.

MachOMagic == <<207, 250, 237, 254>>

ArMagic == <<33, 60, 97, 114, 99, 104, 62, 10>>

FatMagic == <<202, 254, 186, 190>>

SignatureByte == 250

\* f.read(8)
Header(data) == SubSeq(data, 1, IF Len(data) < 8 THEN Len(data) ELSE 8)

\* header[:4]
Header4(data) == SubSeq(data, 1, IF Len(data) < 4 THEN Len(data) ELSE 4)

IsExecutable(data) == Header4(data) = MachOMagic

IsLibrary(data) == Header(data) = ArMagic

\* names ending in ".la"
LaNames == {"y.la"}

\* the mutant: no file is taken for a libtool archive
EndsWithLaNever(name) == FALSE

\* src.name.endswith('.la')
EndsWithLa(name) == name \in LaNames

\* names ending in ".app"
AppNames == {"G.app"}

\* '.app/Contents/' in str(path)
InAppContents(path) ==
    \E i \in 1..Len(path) : path[i] \in AppNames /\ i + 1 < Len(path) /\ path[i + 1] = "Contents"

IsFileT(t, p) == p \in DOMAIN t

IsDirT(t, p) == p = <<>> \/ \E q \in DOMAIN t : Len(q) > Len(p) /\ IsPrefixOf(p, q)

ExistsT(t, p) == IsFileT(t, p) \/ IsDirT(t, p)

\* the order in which iterdir yields names is the file system's: the action
\* picks it
NameOrder == <<"G.app", "Contents", "lib", "x", "y.la", "z">>

Reverse(s) == [i \in 1..Len(s) |-> s[Len(s) + 1 - i]]

RECURSIVE Filter(_, _)
Filter(s, keep) ==
    IF s = <<>> THEN <<>>
    ELSE IF s[1] \in keep THEN <<s[1]>> \o Filter(Tail(s), keep) ELSE Filter(Tail(s), keep)

\* path.iterdir(): the names of the entries of directory d of tree t
IterDir(t, d, order) ==
    Filter(order, {q[Len(d) + 1] : q \in {x \in DOMAIN t : Len(x) > Len(d) /\ IsPrefixOf(d, x)}})

NoOut == [dst |-> <<>>, dirs |-> {}, raised |-> FALSE, done |-> FALSE]

\* the merge context: destination files and directories (relative to the
\* destination root), the invocations so far, a propagating exception
MCtx(o0, lg) == [dst |-> o0.dst, dirs |-> o0.dirs, log |-> lg, raised |-> FALSE]

ToolCalls(lg) == Cardinality({i \in 1..Len(lg) : lg[i].kind = "tool"})

\* the exit status of the next tool invocation
NextExit(lg, o) == IF ToolCalls(lg) + 1 = o.failAt THEN 1 ELSE 0

DstRoot == <<"deps", "t">>

\* shutil.copy(src, dst_path)
CopyInto(m, src, p) ==
    [m EXCEPT !.dst = [q \in (DOMAIN m.dst) \cup {p} |-> IF q = p THEN src.tree[p] ELSE m.dst[q]],
              !.log = Append(@, Ev("fs", "copy", 0, <<src.root \o p, DstRoot \o p>>))]

\* Builder._compare_files over the copies of one relative path; content is
\* None or empty while nothing (or only empty data) has been read
RECURSIVE CompareFiles(_, _, _)
CompareFiles(ss, p, content) ==
    IF ss = <<>> THEN TRUE
    ELSE IF ~ExistsT(ss[1].tree, p) THEN FALSE
    ELSE IF content # <<>>
         THEN IF content # ss[1].tree[p] THEN FALSE ELSE CompareFiles(Tail(ss), p, content)
         ELSE CompareFiles(Tail(ss), p, ss[1].tree[p])

\* lipo -create: one universal file out of the inputs
RECURSIVE Concat(_, _)
Concat(ss, p) == IF ss = <<>> THEN <<>> ELSE ss[1].tree[p] \o Concat(Tail(ss), p)

Lipo(ss, p) == FatMagic \o Concat(ss, p)

\* lipo exits non-zero when an input cannot be opened
LipoExit(m, ss, p, o) ==
    IF \E i \in 1..Len(ss) : ~IsFileT(ss[i].tree, p) THEN 1 ELSE NextExit(m.log, o)

SrcPaths(ss, p) == [i \in 1..Len(ss) |-> ss[i].root \o p]

\* the mutant: every fused file is signed, static archives and bundle
\* contents included
MergeFileSignAll(m, ss, p, o) ==
    LET data == ss[1].tree[p]
    IN  IF IsExecutable(data) \/ IsLibrary(data)
        THEN LET ex == LipoExit(m, ss, p, o)
                 m1 == [m EXCEPT !.log = Append(@, Tool("lipo", ex,
                                                       Append(SrcPaths(ss, p), DstRoot \o p)))]
             IN  IF ex # 0 THEN [m1 EXCEPT !.raised = TRUE]
                 ELSE LET m2 == [m1 EXCEPT !.dst = [q \in (DOMAIN m.dst) \cup {p} |->
                                                      IF q = p THEN Lipo(ss, p) ELSE m.dst[q]]]
                          sx == NextExit(m2.log, o)
                          m3 == [m2 EXCEPT !.log = Append(@, Tool("codesign", sx,
                                                                <<DstRoot \o p>>))]
                      IN  IF sx # 0 THEN [m3 EXCEPT !.raised = TRUE]
                          ELSE [m3 EXCEPT !.dst[p] = Append(@, SignatureByte)]
        ELSE CopyInto(IF ~CompareFiles(ss, p, <<>>)
                      THEN [m EXCEPT !.log = Append(@, Ev("warn", "mismatch", 0, <<DstRoot \o p>>))]
                      ELSE m, ss[1], p)

\* Builder._merge_file
MergeFile(m, ss, p, o) ==
    LET data == ss[1].tree[p]
        is_executable == IsExecutable(data)
        is_library == IsLibrary(data)
    IN  IF is_executable \/ is_library
        THEN LET ex == LipoExit(m, ss, p, o)
                 m1 == [m EXCEPT !.log = Append(@, Tool("lipo", ex,
                                                       Append(SrcPaths(ss, p), DstRoot \o p)))]
             IN  IF ex # 0 THEN [m1 EXCEPT !.raised = TRUE]
                 ELSE LET m2 == [m1 EXCEPT !.dst = [q \in (DOMAIN m.dst) \cup {p} |->
                                                      IF q = p THEN Lipo(ss, p) ELSE m.dst[q]]]
                      IN  IF is_executable /\ ~InAppContents(ss[1].root \o p)
                          THEN LET sx == NextExit(m2.log, o)
                                   m3 == [m2 EXCEPT !.log = Append(@, Tool("codesign", sx,
                                                                         <<DstRoot \o p>>))]
                               IN  IF sx # 0 THEN [m3 EXCEPT !.raised = TRUE]
                                   ELSE [m3 EXCEPT !.dst[p] = Append(@, SignatureByte)]
                          ELSE m2
        ELSE LET m1 == IF ~CompareFiles(ss, p, <<>>)
                       THEN [m EXCEPT !.log = Append(@, Ev("warn", "mismatch", 0, <<DstRoot \o p>>))]
                       ELSE m
             IN  CopyInto(m1, ss[1], p)

\* the loop of the missing-files branch over src_sub_paths[1:]
RECURSIVE CopyIfMissing(_, _, _, _)
CopyIfMissing(m, first, rest, p) ==
    IF rest = <<>> THEN m
    ELSE CopyIfMissing(IF ~ExistsT(rest[1].tree, p) THEN CopyInto(m, first, p) ELSE m,
                       first, Tail(rest), p)

\* shutil.rmtree(dst_path) of the destination directory d
ClearDst(m, d) ==
    [m EXCEPT !.dst = [q \in {x \in DOMAIN m.dst : ~IsPrefixOf(d, x)} |-> m.dst[q]],
              !.dirs = {x \in m.dirs : ~IsPrefixOf(d, x)}]

RECURSIVE MergeInstallPaths(_, _, _, _, _)
RECURSIVE MergeEntries(_, _, _, _, _, _)
RECURSIVE MergeMissingFiles(_, _, _, _, _)

\* Builder._merge_missing_files: k rotations are left
MergeMissingFiles(m, shifted, d, k, o) ==
    IF k = 0 \/ m.raised THEN m
    ELSE LET sh == Append(Tail(shifted), shifted[1])
         IN  MergeMissingFiles(IF ~ExistsT(sh[1].tree, d) THEN m
                               ELSE MergeInstallPaths(m, sh, d, TRUE, o),
                               sh, d, k - 1, o)

\* the loop of Builder._merge_install_paths over src_paths[0].iterdir()
MergeEntries(m, ss, d, names, missing_files_only, o) ==
    IF names = <<>> \/ m.raised THEN m
    ELSE LET p == Append(d, names[1])
             m1 == IF IsDirT(ss[1].tree, p)
                   THEN MergeInstallPaths(m, ss, p, missing_files_only, o)
                   ELSE IF EndsWithLa(names[1]) THEN m
                   ELSE IF missing_files_only THEN CopyIfMissing(m, ss[1], Tail(ss), p)
                   ELSE MergeFile(m, ss, p, o)
         IN  MergeEntries(m1, ss, d, Tail(names), missing_files_only, o)

\* Builder._merge_install_paths for the directory d of every tree
MergeInstallPaths(m, ss, d, missing_files_only, o) ==
    IF Len(ss) = 0 THEN m
    ELSE LET m1 == IF ~missing_files_only /\ d \in m.dirs THEN ClearDst(m, d) ELSE m
             m2 == [m1 EXCEPT !.dirs = @ \cup {d}]
             m3 == MergeEntries(m2, ss, d, IterDir(ss[1].tree, d, o.order),
                                missing_files_only, o)
         IN  IF m3.raised \/ missing_files_only THEN m3
             ELSE MergeMissingFiles(m3, ss, d, Len(ss) - 1, o)

\* ------------------------------------------------------ prefix assembly

\* The dependency directory and the prefix are two trees of entries: a
\* directory, a regular file, or a symbolic link with the path it points to.
\* Paths inside a tree are relative to its root; a link target is absolute.
FileEntry == [type |-> "file", to |-> <<>>]

LinkTo(path) == [type |-> "link", to |-> path]

DepsRoot == <<"deps">>

PrefixRoot == <<"prefix">>

\* os.path.exists of a link target: the targets lie in the dependency
\* directory
TargetExists(w, to) ==
    /\ to # <<>> /\ to[1] = "deps"
    /\ \/ Tail(to) \in w.deps.dirs
       \/ Tail(to) \in DOMAIN w.deps.files /\ w.deps.files[Tail(to)].type = "file"

\* Path.exists of a prefix path: a dangling link does not exist
PrefixExists(w, p) ==
    \/ p \in w.prefix.dirs
    \/ p \in DOMAIN w.prefix.files
         /\ (w.prefix.files[p].type = "file" \/ TargetExists(w, w.prefix.files[p].to))

\* os.path.islink(p) and not os.path.exists(p)
Dangling(w, p) ==
    /\ p \in DOMAIN w.prefix.files
    /\ w.prefix.files[p].type = "link"
    /\ ~TargetExists(w, w.prefix.files[p].to)

PrefixPaths == <<<<"a">>, <<"lib", "b">>, <<"old">>>>

\* the removals of the walk over the prefix, one event per removed link
RECURSIVE RemoveDangling(_, _)
RemoveDangling(w, paths) ==
    IF paths = <<>> THEN w
    ELSE IF Dangling(w, paths[1])
         THEN RemoveDangling([w EXCEPT !.prefix.files =
                                  [q \in (DOMAIN w.prefix.files) \ {paths[1]} |-> w.prefix.files[q]],
                                       !.log = Append(@, Ev("fs", "remove", 0,
                                                            <<PrefixRoot \o paths[1]>>))],
                             Tail(paths))
         ELSE RemoveDangling(w, Tail(paths))

\* the names of the entries of directory d of the dependency tree
DepEntries(w, d, order) ==
    Filter(order, {q[Len(d) + 1] : q \in {x \in (DOMAIN w.deps.files) \cup w.deps.dirs :
                                             Len(x) = Len(d) + 1 /\ IsPrefixOf(d, x)}})

\* os.symlink(entry, dst_subpath), or shutil.copy of a link as a link
PutLink(w, d, entry, name, src) ==
    [w EXCEPT !.prefix.files = [q \in (DOMAIN w.prefix.files) \cup {d} |->
                                   IF q = d THEN entry ELSE w.prefix.files[q]],
              !.log = Append(@, Ev("fs", name, 0, <<DepsRoot \o src, PrefixRoot \o d>>))]

\* the mutant: a link is made whatever is at the destination
RECURSIVE SymlinkEntriesOverwrite(_, _, _, _, _)
SymlinkEntriesOverwrite(w, src, dst, names, order) ==
    IF names = <<>> \/ w.raised THEN w
    ELSE LET e == Append(src, names[1])
             d == Append(dst, names[1])
             w1 == IF e \in w.deps.dirs
                   THEN IF d \in DOMAIN w.prefix.files
                        THEN [w EXCEPT !.raised = TRUE]
                        ELSE SymlinkEntriesOverwrite([w EXCEPT !.prefix.dirs = @ \cup {d}], e, d,
                                                     DepEntries(w, e, order), order)
                   ELSE IF w.deps.files[e].type = "link"
                        THEN PutLink(w, d, LinkTo(w.deps.files[e].to), "copylink", e)
                        ELSE PutLink(w, d, LinkTo(DepsRoot \o e), "symlink", e)
         IN  SymlinkEntriesOverwrite(w1, src, dst, Tail(names), order)

\* symlink_directory, the loop over src_path.iterdir() with its recursion
\* into directories (cleanup=False)
RECURSIVE SymlinkEntries(_, _, _, _, _)
SymlinkEntries(w, src, dst, names, order) ==
    IF names = <<>> \/ w.raised THEN w
    ELSE LET e == Append(src, names[1])
             d == Append(dst, names[1])
             w1 == IF e \in w.deps.dirs
                   THEN \* os.makedirs(exist_ok=True) fails on a non-directory
                        IF d \in DOMAIN w.prefix.files
                        THEN [w EXCEPT !.raised = TRUE]
                        ELSE SymlinkEntries([w EXCEPT !.prefix.dirs = @ \cup {d}], e, d,
                                            DepEntries(w, e, order), order)
                   ELSE IF PrefixExists(w, d) THEN w
                   ELSE \* os.symlink fails on a dangling link left at d
                        IF d \in DOMAIN w.prefix.files
                        THEN [w EXCEPT !.raised = TRUE]
                        ELSE IF w.deps.files[e].type = "link"
                             THEN PutLink(w, d, LinkTo(w.deps.files[e].to), "copylink", e)
                             ELSE PutLink(w, d, LinkTo(DepsRoot \o e), "symlink", e)
         IN  SymlinkEntries(w1, src, dst, Tail(names), order)

\* utility.symlink_directory
SymlinkDirectory(w, src, dst, cleanup, order) ==
    LET w1 == IF cleanup THEN RemoveDangling(w, PrefixPaths) ELSE w
    IN  SymlinkEntries(w1, src, dst, DepEntries(w1, src, order), order)

\* Builder._create_prefix_directory, the loop over deps_path.iterdir()
RECURSIVE LinkDependencies(_, _, _, _)
LinkDependencies(w, names, cleanup, order) ==
    IF names = <<>> \/ w.raised THEN w
    ELSE IF <<names[1]>> \in w.deps.dirs
         THEN LinkDependencies(SymlinkDirectory(w, <<names[1]>>, <<>>, cleanup, order),
                               Tail(names), FALSE, order)
         ELSE LinkDependencies(w, Tail(names), cleanup, order)

\* Builder._create_prefix_directory
CreatePrefixDirectory(w, order) ==
    LinkDependencies([w EXCEPT !.prefix.dirs = @ \cup {<<>>}], DepEntries(w, <<>>, order), TRUE, order)

\* ------------------------------------------- source acquisition: actions

SourceDir == <<"source", "t">>

BuildDir == <<"build", "t", "make">>

ArchivePath == Append(SourceDir, ArchiveName)

\* BuildState.__init__ followed by Builder.__init__ for a named target
FreshBuildState == [source |-> SourceDir, external_source |-> FALSE, build_path |-> BuildDir]

NoPatches == [type |-> "none", names |-> <<>>]

PatchArgs ==
    {NoPatches, [type |-> "str", names |-> <<"p1">>], [type |-> "seq", names |-> <<"p1", "p2">>],
     [type |-> "seq", names |-> <<>>]}

Requests ==
    {[checksum |-> Sha256Hex(d), patches |-> pa] :
        d \in {GoodArchive, MixedArchive, DotArchive}, pa \in PatchArgs}

NoRequest == [checksum |-> <<>>, patches |-> NoPatches]

\* What the network and the tools answer during one invocation.  Answers
\* nobody asks for are left at their quiet value: the server is not contacted
\* when the archive is cached, no tool runs after a failed fetch, and no
\* patch is tried after a failed listing or extraction.
QuietOracle ==
    [net |-> "ok", netData |-> <<>>, tarList |-> 0, tarX |-> 0, dryOk |-> {}, applyFail |-> {},
     clone |-> 0, checkout |-> 0]

NetAnswers(cached) ==
    IF cached THEN {<<"ok", <<>>>>}
    ELSE {<<"urlerror", <<>>>>, <<"ioerror", <<>>>>, <<"readerror", <<>>>>}
         \cup {<<"ok", d>> : d \in ArchiveData}

TarAnswers == {<<0, 0>>, <<1, 0>>, <<0, 1>>}

Range(s) == {s[i] : i \in 1..Len(s)}

DownloadOracles(f, source, r) ==
    LET all == {[QuietOracle EXCEPT !.net = n[1], !.netData = n[2], !.tarList = t[1],
                                    !.tarX = t[2], !.dryOk = dk, !.applyFail = af] :
                    n \in NetAnswers(FileExists(f, Append(source, ArchiveName))),
                    t \in TarAnswers,
                    dk \in SUBSET Range(r.patches.names),
                    af \in SUBSET Range(r.patches.names)}
    IN  {o \in all : /\ o.applyFail \subseteq o.dryOk
                     /\ o.net # "ok" => (o.tarList = 0 /\ o.tarX = 0 /\ o.dryOk = {})
                     /\ (o.tarList # 0 \/ o.tarX # 0) => o.dryOk = {}}

\* the summary of one finished invocation
Summary(op, fresh, before, c, st) ==
    [op |-> op, fresh |-> fresh, raised |-> c.raised, events |-> c.log,
     before |-> before, after |-> c.fs, st |-> st]

Remember(rs, sum) == IF rs = <<>> THEN <<sum>> ELSE <<Last(rs), sum>>

SrcInit ==
    /\ mode = "src"
    /\ fs \in {EmptyFs} \cup {PutFile(EmptyFs, ArchivePath, d) : d \in ArchiveData}
    /\ bs = FreshBuildState
    /\ req \in Requests
    /\ runs = <<>>
    /\ log = <<>>
    /\ srcs = <<>>
    /\ out = NoOut

\* a new engine process acquires the archive of the target
Download ==
    /\ mode = "src"
    /\ \E o \in DownloadOracles(fs, SourceDir, req) :
         LET res == DownloadSource(Ctx(fs, <<>>), FreshBuildState, req, o)
         IN  /\ fs' = res.c.fs
             /\ bs' = res.st
             /\ log' = res.c.log
             /\ runs' = Remember(runs, Summary("download", TRUE, fs, res.c, res.st))
    /\ UNCHANGED <<mode, req, srcs, out>>

\* BuildState of a run over a source tree given with --source
ExternalBuildState ==
    [source |-> <<"external">>, external_source |-> TRUE, build_path |-> BuildDir]

\* download_source on a BuildState whose source tree was supplied externally,
\* before any download
DownloadExternal ==
    /\ mode = "src" /\ srcs = <<>> /\ runs = <<>>
    /\ \E o \in {QuietOracle, [QuietOracle EXCEPT !.net = "urlerror"]} :
         LET res == DownloadSource(Ctx(fs, <<>>), ExternalBuildState, req, o)
         IN  /\ fs' = res.c.fs
             /\ bs' = res.st
             /\ log' = res.c.log
             /\ srcs' = <<Summary("external", TRUE, fs, res.c, res.st)>>
    /\ UNCHANGED <<mode, req, runs, out>>

SrcNext == Download \/ DownloadExternal

SpecSrc == SrcInit /\ [][SrcNext]_vars

\* ------------------------------------------ source acquisition: claims

Cur == Last(runs)

Prev == runs[1]

IsEv(e, kind, name) == e.kind = kind /\ e.name = name

Indexes(r, kind, name) == {i \in 1..Len(r.events) : IsEv(r.events[i], kind, name)}

\* a required tool of the invocation exited non-zero (the dry run is not required)
ToolFailed(r) ==
    \E i \in 1..Len(r.events) :
        r.events[i].kind = "tool" /\ r.events[i].name # "patch-dry-run" /\ r.events[i].exit # 0

\* the bytes the verification of run r was given are the bytes of the archive:
\* those of the cached file, or those just fetched
VerifiedTheArchive(r, i) ==
    IF FileExists(r.before, ArchivePath)
    THEN r.events[i].args[2] = r.before.files[ArchivePath] /\ Indexes(r, "net", "urlopen") = {}
    ELSE \E j \in Indexes(r, "net", "urlopen") :
            j < i /\ r.events[j].exit = 0 /\ r.events[j].args[2] = r.events[i].args[2]

\* C3: When archive acquisition is performed, the verification step passes if
\* and only if the digest of the archive bytes (cached or freshly fetched)
\* equals the declared checksum; on a mismatch the archive file is gone from
\* the disk and the invocation fails, and no invocation succeeds without a
\* passed verification.
C3_ChecksumEnforced ==
    (mode = "src" /\ runs # <<>> /\ Cur.op = "download") =>
        /\ \A i \in Indexes(Cur, "step", "verify") :
              LET e == Cur.events[i]
              IN  /\ VerifiedTheArchive(Cur, i)
                  /\ (e.exit = 0) <=> (Sha256Hex(e.args[2]) = req.checksum)
                  /\ e.exit # 0 =>
                        /\ ~FileExists(Cur.after, ArchivePath)
                        /\ Cur.raised
                        /\ i = Len(Cur.events)
        /\ ~Cur.raised => \E i \in Indexes(Cur, "step", "verify") : Cur.events[i].exit = 0
        /\ (FileExists(Cur.before, ArchivePath)
            \/ \E j \in Indexes(Cur, "net", "urlopen") : Cur.events[j].exit = 0)
           => Indexes(Cur, "step", "verify") # {}

\* a cached archive failed the verification and was removed; the next
\* invocation fetched the archive again and it passed
C3_Witness ==
    /\ mode = "src" /\ Len(runs) = 2
    /\ FileExists(Prev.before, ArchivePath) /\ Prev.raised
    /\ \E i \in Indexes(Prev, "step", "verify") : Prev.events[i].exit = 1
    /\ ~FileExists(Prev.after, ArchivePath)
    /\ Indexes(Cur, "net", "urlopen") # {}
    /\ \E i \in Indexes(Cur, "step", "verify") : Cur.events[i].exit = 0
    /\ ~Cur.raised

\* C4: After one successful download_source, a new engine process for the
\* same target reads the archive from the disk: it contacts no server and
\* extracts nothing, and it succeeds unless a tool it starts exits non-zero.
C4_IdempotentDownload ==
    (mode = "src" /\ Len(runs) = 2 /\ Prev.op = "download" /\ ~Prev.raised
        /\ Cur.op = "download" /\ Cur.fresh) =>
        /\ Indexes(Cur, "net", "urlopen") = {}
        /\ Indexes(Cur, "tool", "tar-xf") = {}
        /\ Cur.raised => ToolFailed(Cur)
        /\ ~Cur.raised => Cur.st = Prev.st

C4_Witness ==
    /\ mode = "src" /\ Len(runs) = 2
    /\ Prev.op = "download" /\ ~Prev.raised /\ Indexes(Prev, "net", "urlopen") # {}
    /\ Indexes(Prev, "tool", "tar-xf") # {}
    /\ Cur.op = "download" /\ Cur.fresh /\ ~Cur.raised
    /\ Indexes(Cur, "tool", "tar-tf") # {}

\* every patch the request names is in the tree d
AllApplied(f, x, r) == DirExists(f, x) /\ Range(r.patches.names) \subseteq f.dirs[x].applied

\* C5: In every invocation the real patch application follows a dry run if
\* and only if that dry run exited 0, and nothing else starts it.  Once a
\* patch is in the tree, a further invocation runs its dry run, which exits
\* non-zero, skips the patch without an error and writes nothing: the tree
\* stays as it was.
C5_PatchIdempotence ==
    (mode = "src" /\ runs # <<>> /\ Cur.op = "download") =>
        /\ \A i \in Indexes(Cur, "tool", "patch-dry-run") :
              (Cur.events[i].exit = 0) <=>
                  (i < Len(Cur.events) /\ IsEv(Cur.events[i + 1], "tool", "patch")
                     /\ Cur.events[i + 1].args = Cur.events[i].args)
        /\ \A i \in Indexes(Cur, "tool", "patch") :
              i > 1 /\ IsEv(Cur.events[i - 1], "tool", "patch-dry-run")
                    /\ Cur.events[i - 1].exit = 0
        /\ \A x \in DOMAIN Cur.before.dirs : \A p \in Cur.before.dirs[x].applied :
              /\ \A i \in Indexes(Cur, "tool", "patch-dry-run") :
                    Cur.events[i].args = <<x, <<p>>>> => Cur.events[i].exit # 0
              /\ \A i \in Indexes(Cur, "tool", "patch") : Cur.events[i].args # <<x, <<p>>>>
        /\ \A x \in DOMAIN Cur.before.dirs :
              (req.patches.names # <<>> /\ AllApplied(Cur.before, x, req)) =>
                  /\ DirExists(Cur.after, x)
                  /\ Cur.after.dirs[x] = Cur.before.dirs[x]
        /\ (Cur.raised /\ Cur.events # <<>>) => ~IsEv(Last(Cur.events), "tool", "patch-dry-run")

\* the first invocation applied p1; the second ran its dry run, which exited
\* non-zero, and went on to succeed
C5_Witness ==
    /\ mode = "src" /\ Len(runs) = 2
    /\ \E i \in Indexes(Prev, "tool", "patch") :
          Prev.events[i].exit = 0 /\ Prev.events[i].args[2] = <<"p1">>
    /\ ~Prev.raised
    /\ \E i \in Indexes(Cur, "tool", "patch-dry-run") :
          Cur.events[i].exit # 0 /\ Cur.events[i].args[2] = <<"p1">>
    /\ Indexes(Cur, "tool", "patch") = {}
    /\ ~Cur.raised
    /\ Cur.after = Cur.before

\* ------------------------------------------------------- merge: actions

\* The engine knows two architectures; the merge is written for any number
\* of trees, so a third one is given to it as well.
InstallDirNames == <<"install_x86_64", "install_arm64", "install_a3">>

TreeCounts == 1..Len(InstallDirNames)

InstallRoot(i) == <<"build", "t", "make", InstallDirNames[i]>>

MachOFile == MachOMagic \o <<1>>

ArFile == ArMagic \o <<1>>

\* seven bytes of the archive magic: no archive
ShortArFile == SubSeq(ArMagic, 1, 7)

MergePaths ==
    {<<"x">>, <<"y.la">>, <<"lib", "z">>, <<"lib", "y.la">>, <<"G.app", "Contents", "x">>}

\* the bytes a build may leave at each path
Vocabulary(p) ==
    CASE p = <<"x">> -> {<<>>, <<1>>, <<2>>, MachOFile, ArFile, ShortArFile}
      [] p = <<"lib", "z">> -> {<<1>>, <<2>>, ArFile}
      [] p = <<"y.la">> -> {<<1>>}
      [] OTHER -> {<<1>>, MachOFile}

AllContents == {<<>>, <<1>>, <<2>>, MachOFile, ArFile, ShortArFile}

Slots(n) == (1..n) \X MergePaths

TreeOf(i, S, f) == [p \in {s[2] : s \in {x \in S : x[1] = i}} |-> f[<<i, p>>]]

StaleOut == [NoOut EXCEPT !.dst = (<<"old">> :> <<9>>), !.dirs = {<<>>}]

MergeOracles == {[order |-> ord, failAt |-> k] : ord \in {NameOrder, Reverse(NameOrder)}, k \in 0..2}

MergeInit ==
    /\ mode = "merge"
    /\ fs = EmptyFs
    /\ bs = FreshBuildState
    /\ req = NoRequest
    /\ runs = <<>>
    /\ log = <<>>
    /\ out \in {NoOut, StaleOut}
    /\ \E n \in TreeCounts : \E S \in SUBSET Slots(n) :
          /\ Cardinality(S) <= MaxFiles
          /\ \E f \in [S -> AllContents] :
                /\ \A x \in S : f[x] \in Vocabulary(x[2])
                /\ srcs = [i \in 1..n |-> [root |-> InstallRoot(i), tree |-> TreeOf(i, S, f)]]

\* Builder._merge_install_paths(install_paths, base_install_path)
Merge ==
    /\ mode = "merge"
    /\ ~out.done
    /\ \E o \in MergeOracles :
         LET m == MergeInstallPaths(MCtx(out, <<>>), srcs, <<>>, FALSE, o)
         IN  /\ out' = [dst |-> m.dst, dirs |-> m.dirs, raised |-> m.raised, done |-> TRUE]
             /\ log' = m.log
    /\ UNCHANGED <<mode, fs, bs, req, runs, srcs>>

MergeNext == Merge

SpecMerge == MergeInit /\ [][MergeNext]_vars

\* -------------------------------------------------------- merge: claims

Primary == srcs[1].tree

AllFiles == UNION {DOMAIN srcs[i].tree : i \in 1..Len(srcs)}

IsLa(p) == EndsWithLa(Last(p))

Holders(p) == {i \in 1..Len(srcs) : p \in DOMAIN srcs[i].tree}

LogIdx(kind, name) == {i \in 1..Len(log) : IsEv(log[i], kind, name)}

\* the invocations of a tool whose output is the destination file of p
ToolIdx(name, p) == {i \in LogIdx("tool", name) : Last(log[i].args) = DstRoot \o p}

\* a tool failed although every file it was given exists
EnvironmentFailure ==
    \E i \in 1..Len(log) :
        /\ log[i].kind = "tool" /\ log[i].exit # 0
        /\ log[i].name = "lipo" =>
              \E p \in DOMAIN Primary : Last(log[i].args) = DstRoot \o p /\ Holders(p) = 1..Len(srcs)

\* C6: After _merge_install_paths completes, every file other than a '.la'
\* file that exists in at least one tree is in the destination; and when a
\* file exists in some trees and not in others the merge completes (unless
\* the environment makes a tool fail) and the destination holds the file
\* with the bytes of a tree that has it, or fused from them.
C6_MissingFileReconciliation ==
    (mode = "merge" /\ out.done) =>
        /\ ~out.raised => \A p \in AllFiles : ~IsLa(p) => p \in DOMAIN out.dst
        /\ \A p \in AllFiles :
              (~IsLa(p) /\ Holders(p) # 1..Len(srcs) /\ ~EnvironmentFailure) =>
                  /\ ~out.raised
                  /\ p \in DOMAIN out.dst
                  /\ \E i \in Holders(p) : out.dst[p] = srcs[i].tree[p]

\* every copy of p is there and they are byte-identical
AllIdentical(p) ==
    /\ Holders(p) = 1..Len(srcs)
    /\ \A i, j \in 1..Len(srcs) : srcs[i].tree[p] = srcs[j].tree[p]

IsPlain(data) == ~IsExecutable(data) /\ ~IsLibrary(data)

WarnIdx(p) == {i \in LogIdx("warn", "mismatch") : Last(log[i].args) = DstRoot \o p}

\* the primary files handed to _merge_file before the merge ended
Reached(p) ==
    \/ ~out.raised
    \/ ToolIdx("lipo", p) # {}
    \/ \E i \in LogIdx("fs", "copy") : log[i].args = <<srcs[1].root \o p, DstRoot \o p>>

\* C7: For a file that is neither executable nor static archive, the
\* mismatch warning is emitted if and only if the per-architecture copies
\* are not all byte-identical; in both cases the destination receives one
\* copy, the first architecture's, and the merge does not fail on it.
C7_PlainFileWarning ==
    (mode = "merge" /\ out.done) =>
        \A p \in DOMAIN Primary :
            (~IsLa(p) /\ IsPlain(Primary[p]) /\ Reached(p)) =>
                /\ (WarnIdx(p) # {}) <=> ~AllIdentical(p)
                /\ p \in DOMAIN out.dst /\ out.dst[p] = Primary[p]
                /\ Cardinality({i \in LogIdx("fs", "copy") : log[i].args[2] = DstRoot \o p}) = 1

\* the fusion and signing of the primary files in the set P
FusionRule(P) ==
    /\ \A p \in P :
          IF IsPlain(Primary[p])
          THEN ToolIdx("lipo", p) = {} /\ ToolIdx("codesign", p) = {}
          ELSE /\ Cardinality(ToolIdx("lipo", p)) <= 1
               /\ ~out.raised => Cardinality(ToolIdx("lipo", p)) = 1
               /\ \A i \in ToolIdx("lipo", p) :
                     /\ log[i].args = Append(SrcPaths(srcs, p), DstRoot \o p)
                     /\ (log[i].exit = 0 /\ IsExecutable(Primary[p])
                           /\ ~InAppContents(srcs[1].root \o p))
                        <=> (i < Len(log) /\ IsEv(log[i + 1], "tool", "codesign")
                               /\ log[i + 1].args = <<DstRoot \o p>>)
               /\ Cardinality(ToolIdx("codesign", p)) <= 1
               /\ \A j \in ToolIdx("codesign", p) :
                     /\ IsExecutable(Primary[p])
                     /\ ~InAppContents(srcs[1].root \o p)
                     /\ j - 1 \in ToolIdx("lipo", p)

\* C8 as amended: For each file of the primary tree other than a '.la' file
\* whose first 4 bytes are the Mach-O magic or whose first 8 bytes are the
\* archive magic, the fusion tool is invoked at most once, and exactly once
\* when no failing tool invocation ends the merge, with one input per tree in
\* list order and the destination file as output; code signing of the
\* destination file follows directly on a successful fusion, and only for
\* Mach-O files whose source path does not contain '.app/Contents/';
\* archives are never signed, plain files and '.la' files are never fused
\* or signed.
C8_FusionAndSigning ==
    (mode = "merge" /\ out.done) =>
        /\ FusionRule({p \in DOMAIN Primary : ~IsLa(p)})
        /\ \A i \in LogIdx("tool", "lipo") \cup LogIdx("tool", "codesign") :
              \E p \in DOMAIN Primary : ~IsLa(p) /\ Last(log[i].args) = DstRoot \o p

\* C8 as stated: every file of the primary tree with one of the two magics
\* is fused
C8_Original ==
    (mode = "merge" /\ out.done /\ ~out.raised) => FusionRule(DOMAIN Primary)

\* a Mach-O file outside a bundle was fused from two trees and signed, an
\* archive was fused and not signed
C8_Witness ==
    /\ mode = "merge" /\ out.done /\ ~out.raised /\ Len(srcs) = 2
    /\ \E i \in ToolIdx("lipo", <<"x">>) :
          /\ IsExecutable(Primary[<<"x">>])
          /\ log[i].exit = 0 /\ Len(log[i].args) = 3
          /\ i + 1 \in ToolIdx("codesign", <<"x">>)
    /\ out.dst[<<"x">>] = Append(Lipo(srcs, <<"x">>), SignatureByte)

\* ----------------------------------------------- prefix assembly: actions

DepNames == {"d1", "d2"}

DepOrder == <<"README", "a", "b", "d1", "d2", "lib">>

\* the link a dependency holds to a file that is gone
VoidLink == LinkTo(<<"deps", "void", "b">>)

\* what one dependency directory can hold
DepContents ==
    {[a |-> x, b |-> y] : x \in {"none", "file"}, y \in {"none", "file", "link"}}

\* the dependency directory with its top-level entries: the dependency
\* directories of ds with their contents, and a stray regular file
DepsTree(ds, cont, stray) ==
    LET fa == {<<n, "a">> : n \in {x \in ds : cont[x].a = "file"}}
        fb == {<<n, "lib", "b">> : n \in {x \in ds : cont[x].b # "none"}}
        fr == IF stray THEN {<<"README">>} ELSE {}
    IN  [files |-> [q \in fa \cup fb \cup fr |->
                       IF Len(q) = 3 /\ cont[q[1]].b = "link" THEN VoidLink ELSE FileEntry],
         dirs |-> {<<>>} \cup {<<n>> : n \in ds} \cup {<<q[1], "lib">> : q \in fb}]

\* what can be at a prefix path before the run: a regular file, a link into
\* the dependency d1, a link into a dependency that was removed
OldEntries(p) == {FileEntry, LinkTo(<<"deps", "d1">> \o p), LinkTo(<<"deps", "gone">> \o p)}

PrefixTrees ==
    {[files |-> f, dirs |-> {<<>>} \cup {SubSeq(q, 1, Len(q) - 1) : q \in DOMAIN f} \cup extra] :
        f \in UNION {[S -> UNION {OldEntries(p) : p \in S}] : S \in SUBSET Range(PrefixPaths)},
        extra \in {{}, {<<"lib">>}}}

PrefixInit ==
    /\ mode = "prefix"
    /\ \E ds \in SUBSET DepNames : \E cont \in [DepNames -> DepContents] : \E stray \in BOOLEAN :
          \E pt \in PrefixTrees :
             /\ \A n \in DepNames \ ds : cont[n] = [a |-> "none", b |-> "none"]
             /\ \A q \in DOMAIN pt.files : pt.files[q] \in OldEntries(q)
             /\ fs = [deps |-> DepsTree(ds, cont, stray), prefix |-> pt]
             /\ out = [pre |-> pt, raised |-> FALSE, done |-> FALSE]
    /\ bs = FreshBuildState
    /\ req = NoRequest
    /\ runs = <<>>
    /\ log = <<>>
    /\ srcs = <<>>

CreatePrefix ==
    /\ mode = "prefix"
    /\ ~out.done
    /\ \E order \in {DepOrder, Reverse(DepOrder)} :
         LET w == CreatePrefixDirectory([deps |-> fs.deps, prefix |-> fs.prefix, log |-> <<>>,
                                         raised |-> FALSE], order)
         IN  /\ fs' = [deps |-> w.deps, prefix |-> w.prefix]
             /\ log' = w.log
             /\ out' = [out EXCEPT !.raised = w.raised, !.done = TRUE]
    /\ UNCHANGED <<mode, bs, req, runs, srcs>>

PrefixNext == CreatePrefix

SpecPrefix == PrefixInit /\ [][PrefixNext]_vars

\* ------------------------------------------------ prefix assembly: claims

Before == [deps |-> fs.deps, prefix |-> out.pre]

\* C9: For every state of the dependency directory, one with no dependency
\* directories included, after _create_prefix_directory completes the prefix
\* contains no dangling symlink that was there before, every symlink whose
\* target still exists is preserved, and every removal of a dangling link
\* comes before the first new link.
C9_SymlinkCleanup ==
    (mode = "prefix" /\ out.done /\ ~out.raised) =>
        /\ \A p \in DOMAIN out.pre.files :
              Dangling(Before, p) =>
                  ~(p \in DOMAIN fs.prefix.files /\ fs.prefix.files[p] = out.pre.files[p])
        /\ \A p \in DOMAIN out.pre.files :
              (out.pre.files[p].type = "link" /\ ~Dangling(Before, p)) =>
                  (p \in DOMAIN fs.prefix.files /\ fs.prefix.files[p] = out.pre.files[p])
        /\ \A i, j \in 1..Len(log) :
              (log[i].name = "remove" /\ log[j].name \in {"symlink", "copylink"}) => i < j

\* ------------------------------------------------------- targets, builder

\* the targets of the model in registration order: main targets, then
\* dependencies and tools, then the cmake download
Registry == <<"gzdoom", "lzdoom3", "mad", "meson", "cmake">>

DOWNLOAD_CMAKE_TARGET_NAME == "cmake"

\* Target.destination
Destination(name) == IF name \in {"gzdoom", "lzdoom3"} THEN "output" ELSE "deps"

\* Target.multi_platform
MultiPlatform(name) == name \notin {"meson", DOWNLOAD_CMAKE_TARGET_NAME}

\* Target.unsupported_architectures
UnsupportedArchitectures(name) == IF name = "lzdoom3" THEN {"arm64"} ELSE {}

\* what prepare_source of a target asks of the BuildState
SourceOf(name) ==
    CASE name = "gzdoom"  -> [kind |-> "git", branch |-> ""]
      [] name = "lzdoom3" -> [kind |-> "git", branch |-> "g3.3mgw"]
      [] name = "mad"     -> [kind |-> "download", checksum |-> Sha256Hex(GoodArchive),
                              patches |-> [type |-> "str", names |-> <<"p1">>]]
      [] OTHER            -> [kind |-> "download", checksum |-> Sha256Hex(GoodArchive),
                              patches |-> NoPatches]

\* Target.detect on a source tree given by the marker files it holds
Detect(name, markers) ==
    CASE name = "gzdoom"  -> "project:gzdoom" \in markers
      [] name = "lzdoom3" -> "ico_lzdoom.png" \in markers /\ "libraries/zmusic" \in markers
      [] name = "mad"     -> "mad.h" \in markers
      [] name = "meson"   -> "meson.py" \in markers
      [] OTHER            -> FALSE

\* the mutant: the last matching target wins
RECURSIVE DetectTargetLast(_, _)
DetectTargetLast(names, markers) ==
    IF names = <<>> THEN [raised |-> TRUE, name |-> ""]
    ELSE IF Detect(Last(names), markers) THEN [raised |-> FALSE, name |-> Last(names)]
    ELSE DetectTargetLast(SubSeq(names, 1, Len(names) - 1), markers)

\* Builder._detect_target over the registered targets: the first target
\* whose probe answers true is taken (break); with none, self._target was
\* never assigned and the assert statement raises
RECURSIVE DetectTarget(_, _)
DetectTarget(names, markers) ==
    IF names = <<>> THEN [raised |-> TRUE, name |-> ""]
    ELSE IF Detect(names[1], markers) THEN [raised |-> FALSE, name |-> names[1]]
    ELSE DetectTarget(Tail(names), markers)

\* the mutant: the list is left in the order x86_64, arm64
PopulatePlatformsUnordered(args, mach) ==
    (IF args.disable_x64 THEN <<>> ELSE <<"x86_64">>)
        \o (IF args.disable_arm THEN <<>> ELSE <<"arm64">>)

\* Builder._populate_platforms: x86_64, then arm64, the native one moved to
\* the front; the empty list stands for the failed assert
PopulatePlatforms(args, mach) ==
    LET ps == (IF args.disable_x64 THEN <<>> ELSE <<"x86_64">>)
                \o (IF args.disable_arm THEN <<>> ELSE <<"arm64">>)
    IN  IF ps = <<>> THEN <<>>
        ELSE IF ps[1] = mach THEN ps
        ELSE IF mach \in Range(ps) THEN <<mach>> \o Filter(ps, Range(ps) \ {mach})
        ELSE ps

NoPath == <<>>

\* the mutant: the prefix directory is created first
RunStepsPrefixFirst(name) ==
    IF name # DOWNLOAD_CMAKE_TARGET_NAME THEN <<"prefix", "prepare", "install", "nested">>
    ELSE <<"prefix", "prepare", "install">>

\* the mutant: the nested run of the cmake download comes first
RunStepsNestedFirst(name) ==
    IF name # DOWNLOAD_CMAKE_TARGET_NAME THEN <<"nested", "prepare", "install", "prefix">>
    ELSE <<"prepare", "install", "prefix">>

\* the mutant: the run of the cmake download starts a nested run as well
RunStepsAlwaysNested(name) == <<"prepare", "install", "nested", "prefix">>

\* Builder.run: the statements before the build, in their order
RunSteps(name) ==
    IF name # DOWNLOAD_CMAKE_TARGET_NAME THEN <<"prepare", "install", "nested", "prefix">>
    ELSE <<"prepare", "install", "prefix">>

\* one Builder with its BuildState st, and where its run stands
Frame(name, st, platforms) ==
    [name |-> name, st |-> st, platforms |-> platforms, pc |-> RunSteps(name)[1], k |-> 1,
     fan |-> FALSE, base_build_path |-> NoPath, base_install_path |-> NoPath,
     install_paths |-> <<>>]

NoFrame == Frame("", FreshBuildState, <<>>)

\* Builder.__init__ with the parsed arguments args on a machine of
\* architecture mach; sysctl is asked for the job count unless --jobs is given
BuilderInit(args, mach, sysctlExit) ==
    LET platforms == PopulatePlatforms(args, mach)
        det == IF args.target # "" THEN [raised |-> FALSE, name |-> args.target]
               ELSE DetectTarget(Registry, args.source)
        st == [source |-> IF args.target # "" THEN <<"source", det.name>> ELSE <<"external">>,
               external_source |-> args.target = "",
               build_path |-> <<"build", det.name, IF args.xcode THEN "xcode" ELSE "make">>,
               native_build_path |-> NoPath,
               install_path |-> NoPath,
               platform |-> IF platforms = <<>> THEN "" ELSE platforms[1],
               xcode |-> args.xcode]
    IN  IF platforms = <<>> \/ det.raised
        THEN [raised |-> TRUE, log |-> <<>>, frame |-> NoFrame]
        ELSE IF args.jobs
        THEN [raised |-> FALSE, log |-> <<>>, frame |-> Frame(det.name, st, platforms)]
        ELSE [raised |-> sysctlExit # 0, log |-> <<Tool("sysctl", sysctlExit, <<det.name>>)>>,
              frame |-> Frame(det.name, st, platforms)]

\* BuildState.checkout_git
CheckoutGitUnchecked(c, st, branch, o) ==
    IF PathExists(c.fs, st.source) THEN c
    ELSE LET c1 == Note(c, Tool("git-clone", o.clone, <<st.source>>))
             c2 == [c1 EXCEPT !.fs = PutDir(@, st.source, Dir("git", TRUE, {}, ""))]
         IN  IF branch = "" THEN c2
             ELSE LET c3 == Note(c2, Tool("git-checkout", o.checkout, <<st.source>>))
                  IN  IF o.checkout # 0 THEN Raise(c3)
                      ELSE [c3 EXCEPT !.fs = PutDir(@, st.source, Dir("git", TRUE, {}, branch))]

\* the mutant: the clone is made whether or not the source directory exists
CheckoutGitReclone(c, st, branch, o) ==
    LET c1 == Note(c, Tool("git-clone", o.clone, <<st.source>>))
    IN  IF o.clone # 0 THEN Raise(c1)
        ELSE LET c2 == [c1 EXCEPT !.fs = PutDir(@, st.source, Dir("git", TRUE, {}, ""))]
             IN  IF branch = "" THEN c2
                 ELSE LET c3 == Note(c2, Tool("git-checkout", o.checkout, <<st.source>>))
                      IN  IF o.checkout # 0 THEN Raise(c3)
                          ELSE [c3 EXCEPT !.fs = PutDir(@, st.source,
                                                       Dir("git", TRUE, {}, branch))]

\* BuildState.checkout_git
CheckoutGit(c, st, branch, o) ==
    IF PathExists(c.fs, st.source) THEN c
    ELSE LET c1 == Note(c, Tool("git-clone", o.clone, <<st.source>>))
         IN  IF o.clone # 0 THEN Raise(c1)
             ELSE LET c2 == [c1 EXCEPT !.fs = PutDir(@, st.source, Dir("git", TRUE, {}, ""))]
                  IN  IF branch = "" THEN c2
                      ELSE LET c3 == Note(c2, Tool("git-checkout", o.checkout, <<st.source>>))
                           IN  IF o.checkout # 0 THEN Raise(c3)
                               ELSE [c3 EXCEPT !.fs = PutDir(@, st.source,
                                                            Dir("git", TRUE, {}, branch))]

\* BuildState.run_pkg_config: the set ds of made directories, the log
RunPkgConfig(c, st, exit) ==
    LET c1 == [c EXCEPT !.fs.dirs = @ \cup {st.build_path}]
        c2 == Note(c1, Tool("pkg-config", exit, <<st.build_path>>))
    IN  IF exit # 0 THEN Raise(c2) ELSE c2

\* the build tool invocations of a hook, each one checked: the one numbered
\* failAt exits non-zero
RECURSIVE RunTools(_, _, _, _)
RunTools(c, names, failAt, cwd) ==
    IF names = <<>> \/ c.raised THEN c
    ELSE LET ex == IF failAt = 1 THEN 1 ELSE 0
             c1 == Note(c, Tool(names[1], ex, <<cwd>>))
         IN  RunTools(IF ex # 0 THEN Raise(c1) ELSE c1, Tail(names), failAt - 1, cwd)

\* the build tool steps of the three hooks of a target
HookTools(name, hook) ==
    CASE name \in {"gzdoom", "lzdoom3"} ->
            (CASE hook = "configure" -> <<"cmake">> [] hook = "build" -> <<"make">> [] OTHER -> <<>>)
      [] name = "mad" ->
            (CASE hook = "configure" -> <<"configure">> [] hook = "build" -> <<"make">>
               [] OTHER -> <<"make-install">>)
      [] OTHER -> <<>>

\* ZDoomBaseTarget.configure asks pkg-config for the link flags first
AsksPkgConfig(name, hook) == name \in {"gzdoom", "lzdoom3"} /\ hook = "configure"

ArchByte(arch) == IF arch = "x86_64" THEN 1 ELSE 2

BuildDirName(arch) == IF arch = "x86_64" THEN "build_x86_64" ELSE "build_arm64"

InstallDirName(arch) == IF arch = "x86_64" THEN "install_x86_64" ELSE "install_arm64"

\* what post_build leaves in the install path: an application bundle for a
\* main target, a static library and a tool for a dependency
InstalledTree(name, arch) ==
    IF Destination(name) = "output"
    THEN (<<"G.app", "Contents", "x">> :> MachOMagic \o <<ArchByte(arch)>>)
    ELSE (<<"lib", "z">> :> ArMagic \o <<ArchByte(arch)>>)
            @@ (<<"x">> :> MachOMagic \o <<ArchByte(arch)>>)

\* target.configure(state), target.build(state) or target.post_build(state)
Hook(c, name, hook, st, failAt) ==
    LET c0 == [c EXCEPT !.log = Append(@, Ev("run", hook, 0, <<name, st.platform>>))]
        c1 == IF AsksPkgConfig(name, hook)
              THEN RunPkgConfig(c0, st, IF failAt = 1 THEN 1 ELSE 0)
              ELSE c0
        c2 == IF c1.raised THEN c1
              ELSE RunTools([c1 EXCEPT !.fs.dirs = @ \cup {st.build_path}], HookTools(name, hook),
                            IF AsksPkgConfig(name, hook) THEN failAt - 1 ELSE failAt,
                            st.build_path)
    IN  IF c2.raised \/ hook # "post_build" THEN c2
        ELSE IF Destination(name) = "output" /\ st.xcode THEN c2     \* CMakeMainTarget.post_build
        ELSE [c2 EXCEPT !.fs.trees = [q \in (DOMAIN @) \cup {st.install_path} |->
                                         IF q # st.install_path THEN @[q]
                                         ELSE IF Destination(name) = "output" \/ q \notin DOMAIN @
                                              THEN InstalledTree(name, st.platform)
                                              ELSE InstalledTree(name, st.platform) @@ @[q]]]

HookCalls(name, hook) == Len(HookTools(name, hook)) + (IF AsksPkgConfig(name, hook) THEN 1 ELSE 0)

\* the mutant: build comes before configure
BuildBuildFirst(hook) ==
    CASE hook = "start" -> "build"
      [] hook = "build" -> "configure"
      [] hook = "configure" -> "post_build"
      [] OTHER -> "end"

\* Builder._build: the hook that follows hook
Build(hook) ==
    CASE hook = "start" -> "configure"
      [] hook = "configure" -> "build"
      [] hook = "build" -> "post_build"
      [] OTHER -> "end"

\* ------------------------------------------------------------ run: actions

\* the source trees a caller can hand to --source, by the marker files in them
SourceTrees ==
    {{}, {"meson.py"}, {"mad.h"}, {"project:gzdoom"}, {"ico_lzdoom.png"},
     {"ico_lzdoom.png", "libraries/zmusic"}, {"project:gzdoom", "meson.py"},
     {"mad.h", "meson.py"}, {"project:gzdoom", "ico_lzdoom.png", "libraries/zmusic"}}

\* Builder._parse_arguments: exactly one of --target and --source, at most
\* one of --disable-x64 and --disable-arm
Arguments ==
    {[target |-> sel[1], source |-> sel[2], xcode |-> x, disable_x64 |-> d[1],
      disable_arm |-> d[2], jobs |-> j] :
        sel \in {<<n, {}>> : n \in Range(Registry)} \cup {<<"", m>> : m \in SourceTrees},
        x \in BOOLEAN,
        d \in {<<FALSE, FALSE>>, <<TRUE, FALSE>>, <<FALSE, TRUE>>},
        j \in BOOLEAN}

\* Builder(['--target=' + DOWNLOAD_CMAKE_TARGET_NAME])
NestedArguments ==
    [target |-> DOWNLOAD_CMAKE_TARGET_NAME, source |-> {}, xcode |-> FALSE,
     disable_x64 |-> FALSE, disable_arm |-> FALSE, jobs |-> FALSE]

Machines == {"x86_64", "arm64"}

\* the mutant: every target is installed as a dependency
FinalInstallPathDeps(name) == <<"deps", name>>

\* Builder.run: install_path by destination
FinalInstallPath(name) ==
    IF Destination(name) = "deps" THEN <<"deps", name>>
    ELSE IF Destination(name) = "output" THEN <<"output", name>>
    ELSE NoPath

StaleTree == (<<"old">> :> <<9>>)

\* the source area before the run: the caller's tree, and either nothing
\* else or the checkouts and downloaded archives of an earlier run
SourceArea(cached) ==
    LET ext == PutDir(EmptyFs, <<"external">>, Dir("plain", TRUE, {}, ""))
    IN  IF ~cached THEN ext
        ELSE [files |-> [q \in {<<"source", n, ArchiveName>> :
                                   n \in {x \in Range(Registry) : SourceOf(x).kind = "download"}}
                            |-> GoodArchive],
              dirs |-> [q \in {<<"external">>} \cup {<<"source", n>> : n \in Range(Registry)} |->
                           IF Len(q) = 2 /\ SourceOf(q[2]).kind = "git"
                           THEN Dir("git", TRUE, {}, "") ELSE Dir("plain", TRUE, {}, "")]]

\* one dependency built earlier, and a prefix with a link left dangling
BuiltDeps ==
    DepsTree({"d1"}, [n \in DepNames |-> IF n = "d1" THEN [a |-> "file", b |-> "file"]
                                          ELSE [a |-> "none", b |-> "none"]], FALSE)

OldPrefix == [files |-> (<<"old">> :> LinkTo(<<"deps", "gone", "old">>)), dirs |-> {<<>>}]

RunInit ==
    /\ mode = "run"
    /\ req \in {[args |-> a, machine |-> m] : a \in Arguments, m \in Machines}
    /\ \E cached \in BOOLEAN : \E stale \in BOOLEAN :
          fs = [src |-> SourceArea(cached),
                trees |-> IF stale
                          THEN [q \in {FinalInstallPath(n) : n \in Range(Registry)} |-> StaleTree]
                          ELSE <<>>,
                dirs |-> {},
                deps |-> BuiltDeps,
                prefix |-> OldPrefix]
    /\ bs = FreshBuildState
    /\ runs = <<>>
    /\ log = <<>>
    /\ srcs = <<>>
    /\ out = [status |-> "new", target |-> ""]

Top == runs[Len(runs)]

Replace(f) == [runs EXCEPT ![Len(runs)] = f]

At(pc) == mode = "run" /\ runs # <<>> /\ Top.pc = pc

Step(name, f) == Ev("run", name, 0, <<f.name, f.st.platform>>)

\* an exception leaves every active run; otherwise the run goes on
Proceed(raised, lg, f, rs) ==
    /\ log' = lg
    /\ fs' = f
    /\ runs' = IF raised THEN <<>> ELSE rs
    /\ out' = IF raised THEN [out EXCEPT !.status = "failed"] ELSE out

\* the mutant: the passes per platform are taken when several platforms are
\* enabled
FansOutWhenSeveral(f) == MultiPlatform(f.name) /\ Len(f.platforms) > 1

\* Builder.run: 'if target.multi_platform and not state.xcode'
FansOut(f) == MultiPlatform(f.name) /\ ~f.st.xcode

\* Builder.run: the choice between the single pass and the passes per platform
Dispatch(f) ==
    IF FansOut(f)
    THEN [f EXCEPT !.fan = TRUE, !.base_build_path = f.st.build_path,
                   !.base_install_path = f.st.install_path, !.pc = "pass"]
    ELSE [f EXCEPT !.pc = Build("start")]

\* the run f after its statement pc: at the next statement, or in the build
AfterStep(f, pc) ==
    LET steps == RunSteps(f.name)
        i == CHOOSE x \in 1..Len(steps) : steps[x] = pc
    IN  IF i < Len(steps) THEN [f EXCEPT !.pc = steps[i + 1]] ELSE Dispatch(f)

\* the mutant: a previous install is left in place
RemovesPreviousInstallNever(f, ip, trees) == FALSE

\* Builder.run: 'if not state.xcode: shutil.rmtree(install_path, ignore_errors=True)'
RemovesPreviousInstall(f, ip, trees) == ~f.st.xcode /\ ip \in DOMAIN trees

\* Builder(args) of the requested run
Construct ==
    /\ mode = "run" /\ out.status = "new"
    /\ \E ex \in (IF req.args.jobs THEN {0} ELSE {0, 1}) :
         LET r == BuilderInit(req.args, req.machine, ex)
         IN  /\ log' = log \o r.log
             /\ runs' = IF r.raised THEN <<>> ELSE <<r.frame>>
             /\ out' = [status |-> IF r.raised THEN "failed" ELSE "running",
                        target |-> r.frame.name]
    /\ UNCHANGED <<mode, fs, bs, req, srcs>>

\* target.prepare_source(state)
PrepareSource ==
    /\ At("prepare")
    /\ LET f == Top
           src == SourceOf(f.name)
           c0 == Ctx(fs.src, Append(log, Step("prepare_source", f)))
       IN  IF src.kind = "git"
           THEN \E cl \in {0, 1} : \E co \in {0, 1} :
                   LET c == CheckoutGit(c0, f.st, src.branch,
                                        [QuietOracle EXCEPT !.clone = cl, !.checkout = co])
                   IN  Proceed(c.raised, c.log, [fs EXCEPT !.src = c.fs],
                               Replace(AfterStep(f, "prepare")))
           ELSE \E o \in DownloadOracles(fs.src, f.st.source, src) :
                   LET res == DownloadSource(c0, f.st, src, o)
                   IN  Proceed(res.c.raised, res.c.log, [fs EXCEPT !.src = res.c.fs],
                               Replace(AfterStep([f EXCEPT !.st = res.st], "prepare")))
    /\ UNCHANGED <<mode, bs, req, srcs>>

\* Builder.run: the install path, and the removal of a previous install
SetInstallPath ==
    /\ At("install")
    /\ LET f == Top
           ip == FinalInstallPath(f.name)
           rm == RemovesPreviousInstall(f, ip, fs.trees)
           lg == Append(log, Step("install_path", f))
       IN  Proceed(ip = NoPath,
                   IF rm THEN Append(lg, Ev("fs", "rmtree", 0, <<ip>>)) ELSE lg,
                   IF rm THEN [fs EXCEPT !.trees = [q \in (DOMAIN @) \ {ip} |-> @[q]]] ELSE fs,
                   Replace(AfterStep([f EXCEPT !.st.install_path = ip], "install")))
    /\ UNCHANGED <<mode, bs, req, srcs>>

\* Builder.run: the construction of the Builder of the cmake download, whose
\* run comes next
NestedRun ==
    /\ At("nested")
    /\ \E ex \in {0, 1} :
         LET r == BuilderInit(NestedArguments, req.machine, ex)
         IN  Proceed(r.raised, Append(log, Step("nested", Top)) \o r.log, fs,
                     Append(Replace(AfterStep(Top, "nested")), r.frame))
    /\ UNCHANGED <<mode, bs, req, srcs>>

\* Builder.run: self._create_prefix_directory() and the choice between the
\* single pass and the passes per platform
CreatePrefixStep ==
    /\ At("prefix")
    /\ LET f == Top
           w == CreatePrefixDirectory([deps |-> fs.deps, prefix |-> fs.prefix,
                                       log |-> Append(log, Step("prefix", f)), raised |-> FALSE],
                                      DepOrder)
       IN  Proceed(w.raised, w.log, [fs EXCEPT !.deps = w.deps, !.prefix = w.prefix],
                   Replace(AfterStep(f, "prefix")))
    /\ UNCHANGED <<mode, bs, req, srcs>>

\* the mutant: no architecture is skipped
PlatformsLeftAll(f) == f.k..Len(f.platforms)

\* the platforms the loop of _build_multiple_platforms has yet to build
PlatformsLeft(f) ==
    {i \in f.k..Len(f.platforms) : f.platforms[i] \notin UnsupportedArchitectures(f.name)}

\* Builder._build_multiple_platforms: the head of the loop for the next
\* supported platform
BeginPass ==
    /\ At("pass")
    /\ PlatformsLeft(Top) # {}
    /\ LET f == Top
           i == CHOOSE x \in PlatformsLeft(f) : \A y \in PlatformsLeft(f) : x <= y
           arch == f.platforms[i]
           bp == Append(f.base_build_path, BuildDirName(arch))
           st1 == [f.st EXCEPT !.platform = arch,
                               !.build_path = bp,
                               !.native_build_path = IF arch = req.machine THEN bp ELSE @,
                               !.install_path = Append(f.base_build_path, InstallDirName(arch))]
           f1 == [f EXCEPT !.st = st1, !.k = i, !.pc = Build("start")]
       IN  Proceed(FALSE, Append(log, Step("pass", f1)), fs, Replace(f1))
    /\ UNCHANGED <<mode, bs, req, srcs>>

\* one hook of Builder._build, and what follows it
HookStep(hook) ==
    /\ At(hook)
    /\ \E failAt \in 0..HookCalls(Top.name, hook) :
         LET f == Top
             c == Hook([fs |-> fs, log |-> log, raised |-> FALSE], f.name, hook, f.st, failAt)
             f1 == IF Build(hook) # "end" THEN [f EXCEPT !.pc = Build(hook)]
                   ELSE IF f.fan
                        THEN [f EXCEPT !.install_paths = Append(@, f.st.install_path),
                                       !.k = @ + 1, !.pc = "pass"]
                        ELSE [f EXCEPT !.pc = "return"]
         IN  Proceed(c.raised, c.log, c.fs, Replace(f1))
    /\ UNCHANGED <<mode, bs, req, srcs>>

ConfigureHook == HookStep("configure")

BuildHook == HookStep("build")

PostBuildHook == HookStep("post_build")

\* the tool invocations of a merge in which nothing fails
MergeCalls(ss) ==
    IF ss = <<>> THEN 0
    ELSE Cardinality({p \in DOMAIN ss[1].tree : ~IsPlain(ss[1].tree[p])})
           + Cardinality({p \in DOMAIN ss[1].tree : IsExecutable(ss[1].tree[p])})

\* Builder._build_multiple_platforms after the loop:
\* Builder._merge_install_paths(install_paths, base_install_path)
MergeStep ==
    /\ At("pass")
    /\ PlatformsLeft(Top) = {}
    /\ LET f == Top
           ss == [i \in 1..Len(f.install_paths) |->
                     [root |-> f.install_paths[i], tree |-> fs.trees[f.install_paths[i]]]]
           d0 == f.base_install_path
           o0 == IF d0 \in DOMAIN fs.trees THEN [dst |-> fs.trees[d0], dirs |-> {<<>>}]
                 ELSE [dst |-> <<>>, dirs |-> {}]
       IN  /\ srcs' = ss
           /\ \E k \in 0..MergeCalls(ss) :
                LET m == MergeInstallPaths(MCtx(o0, <<>>), ss, <<>>, FALSE,
                                           [order |-> NameOrder, failAt |-> k])
                    trees1 == IF m.dirs = {} THEN fs.trees
                              ELSE [q \in (DOMAIN fs.trees) \cup {d0} |->
                                       IF q = d0 THEN m.dst ELSE fs.trees[q]]
                IN  Proceed(m.raised, Append(log, Step("merge", f)) \o m.log,
                            [fs EXCEPT !.trees = trees1], Replace([f EXCEPT !.pc = "return"]))
    /\ UNCHANGED <<mode, bs, req>>

\* Builder.run returns: to the run that started it, or to the caller
Return ==
    /\ At("return")
    /\ log' = Append(log, Step("return", Top))
    /\ runs' = SubSeq(runs, 1, Len(runs) - 1)
    /\ out' = IF Len(runs) = 1 THEN [out EXCEPT !.status = "ok"] ELSE out
    /\ UNCHANGED <<mode, fs, bs, req, srcs>>

RunNext ==
    \/ Construct
    \/ PrepareSource
    \/ SetInstallPath
    \/ NestedRun
    \/ CreatePrefixStep
    \/ BeginPass
    \/ ConfigureHook
    \/ BuildHook
    \/ PostBuildHook
    \/ MergeStep
    \/ Return

SpecRun == RunInit /\ [][RunNext]_vars

\* ------------------------------------------------------------- run: claims

IsStep(e, name, target) == e.kind = "run" /\ e.name = name /\ e.args[1] = target

\* the hooks run for target, in the order in which they began
HooksOf(target) ==
    LET IsHook(e) == e.kind = "run" /\ e.name \in {"configure", "build", "post_build"}
                        /\ e.args[1] = target
    IN  SelectSeq(log, IsHook)

HookOrder == <<"configure", "build", "post_build">>

\* the run of target has ended without an exception
Returned(target) == \E i \in 1..Len(log) : IsStep(log[i], "return", target)

\* the hooks of one run come in passes of configure, build, post_build for
\* one architecture, no architecture twice
InPasses(hs) ==
    /\ \A j \in 1..Len(hs) :
          /\ hs[j].name = HookOrder[((j - 1) % Len(HookOrder)) + 1]
          /\ (j - 1) % Len(HookOrder) # 0 => hs[j].args[2] = hs[j - 1].args[2]
    /\ \A i, j \in 1..Len(hs) :
          (i < j /\ hs[i].name = "configure" /\ hs[j].name = "configure")
              => hs[i].args[2] # hs[j].args[2]

\* C1: In one Builder.run (the requested one, and the nested run of the
\* cmake download) prepare_source happens before the first configure; the
\* hooks come in passes, and in every pass configure, build and post_build
\* run once each and in that order, a pass beginning its configure only
\* after the post_build of the pass before it; a run that returns has
\* completed every pass it began.
C1_LifecycleOrder ==
    mode = "run" =>
        \A target \in {out.target, DOWNLOAD_CMAKE_TARGET_NAME} :
            /\ InPasses(HooksOf(target))
            /\ \A i \in 1..Len(log) :
                  IsStep(log[i], "configure", target) =>
                      \E j \in 1..(i - 1) : IsStep(log[j], "prepare_source", target)
            /\ Returned(target) => Len(HooksOf(target)) % Len(HookOrder) = 0

\* a fan-out over two architectures has run to its end
C1_Witness ==
    /\ mode = "run" /\ out.status = "ok"
    /\ Len(HooksOf(out.target)) = 2 * Len(HookOrder)
    /\ HooksOf(out.target)[1].args[2] # HooksOf(out.target)[Len(HookOrder) + 1].args[2]
    /\ Len(HooksOf(DOWNLOAD_CMAKE_TARGET_NAME)) = Len(HookOrder)

RequiredToolFailed(e) == e.kind = "tool" /\ e.name # "patch-dry-run" /\ e.exit # 0

\* C2: Whenever a required external tool invocation exits non-zero, the run
\* ends in failure and nothing is performed after it: the failed invocation
\* is the last thing the engine did, and no Builder run is left active.  The
\* non-zero exit of a patch dry run aborts nothing.
C2_FailFast ==
    mode = "run" =>
        /\ \A i \in 1..Len(log) :
              RequiredToolFailed(log[i]) => (i = Len(log) /\ out.status = "failed" /\ runs = <<>>)
        /\ (log # <<>> /\ IsEv(Last(log), "tool", "patch-dry-run")) => out.status = "running"

\* the build tool failed in the first of two architecture passes, inside a
\* run nested in nothing: no second pass, no merge
C2_Witness ==
    /\ mode = "run" /\ out.status = "failed" /\ log # <<>>
    /\ IsEv(Last(log), "tool", "make") /\ Last(log).exit # 0
    /\ MultiPlatform(out.target) /\ ~req.args.disable_x64 /\ ~req.args.disable_arm
    /\ UnsupportedArchitectures(out.target) = {}
    /\ Cardinality({i \in 1..Len(log) : IsStep(log[i], "pass", out.target)}) = 1
    /\ \E i \in 1..Len(log) : IsEv(log[i], "tool", "patch-dry-run") /\ log[i].exit # 0

\* the registered targets whose probe answers true for the source tree
Matches == {i \in 1..Len(Registry) : Detect(Registry[i], req.args.source)}

Detecting == mode = "run" /\ req.args.target = "" /\ out.status # "new"

NothingBuilt == out.status = "failed" /\ runs = <<>> /\ \A i \in 1..Len(log) : log[i].kind # "run"

\* C10 as amended: Target auto-detection selects the first registered
\* target, in registration order, whose detect probe returns true for the
\* supplied source tree, whether or not other targets match as well; when no
\* target matches, construction of the Builder fails and no target is built.
C10_FirstMatchSelected ==
    Detecting =>
        IF Matches = {} THEN NothingBuilt /\ out.target = ""
        ELSE /\ out.target = Registry[CHOOSE i \in Matches : \A j \in Matches : i <= j]
             /\ \A i \in 1..Len(log) : log[i].kind = "run" => log[i].args[1] \in
                                          {out.target, DOWNLOAD_CMAKE_TARGET_NAME}

\* C10 as stated: a target is selected only when exactly one probe answers
\* true; with none or more than one, construction fails and nothing is built
C10_Original ==
    Detecting =>
        IF Cardinality(Matches) = 1 THEN out.target = Registry[CHOOSE i \in Matches : TRUE]
        ELSE NothingBuilt

\* two targets match the source tree, and the first of them has been built
C10_Witness ==
    /\ Detecting /\ Cardinality(Matches) > 1
    /\ out.status = "ok"
    /\ out.target = "gzdoom"
    /\ Len(HooksOf("gzdoom")) >= Len(HookOrder)

\* the requested run has returned to its caller
Succeeded == mode = "run" /\ out.status = "ok"

\* C11: Every Builder.run that returns without raising has taken the
\* requested target through post_build at least once, whatever platforms are
\* enabled and whatever architectures the target declares unsupported; a run
\* without a build pass does not report success.
C11_SuccessMeansPostBuilt ==
    Succeeded => \E i \in 1..Len(log) : IsStep(log[i], "post_build", out.target)

\* the Builder runs whose configure hook is about to run
Configuring == {i \in 1..Len(runs) : runs[i].pc = "configure"}

\* C12: Whenever the configure hook of a target runs, state.install_path is
\* set: in a single pass it is deps/<target> or output/<target> by the
\* destination class of the target, in a pass per platform it is the install
\* directory of the architecture under the base build path; a target of
\* neither destination class does not reach configure.
C12_InstallPathSet ==
    mode = "run" =>
        \A i \in Configuring :
            LET f == runs[i]
            IN  /\ f.st.install_path # NoPath
                /\ Destination(f.name) \in {"deps", "output"}
                /\ f.st.install_path =
                      IF f.fan THEN Append(f.base_build_path, InstallDirName(f.st.platform))
                      ELSE <<Destination(f.name), f.name>>

\* configure is about to run in the second pass of a fan-out
C12_Witness ==
    /\ mode = "run"
    /\ \E i \in Configuring : runs[i].fan /\ runs[i].k = 2 /\ Destination(runs[i].name) = "deps"

\* the Builder runs inside Builder._build
Building == {i \in 1..Len(runs) : runs[i].pc \in Range(HookOrder)}

\* the directory names the passes per platform use
SuffixedNames == {BuildDirName(a) : a \in Machines} \cup {InstallDirName(a) : a \in Machines}

\* the run of target is in Xcode mode: the nested Builder never is
XcodeOf(target) == target = out.target /\ req.args.xcode

StepsOf(name, target) == {i \in 1..Len(log) : IsStep(log[i], name, target)}

\* a pass of configure, build, post_build is made in the places rule says:
\* per platform or against the base paths
PassPlaces(f, fans) ==
    /\ f.fan <=> fans
    /\ f.fan => /\ f.st.build_path = Append(f.base_build_path, BuildDirName(f.st.platform))
                /\ f.st.install_path = Append(f.base_build_path, InstallDirName(f.st.platform))
    /\ ~f.fan => /\ f.st.install_path = <<Destination(f.name), f.name>>
                 /\ Last(f.st.build_path) \notin SuffixedNames

ExpectedPasses ==
    LET ps == PopulatePlatforms(req.args, req.machine)
    IN  Filter(ps, Range(ps) \ UnsupportedArchitectures(out.target))

\* the architectures of the passes begun for the requested target
PassesBegun ==
    LET IsPass(e) == IsStep(e, "pass", out.target)
        ps == SelectSeq(log, IsPass)
    IN  [i \in 1..Len(ps) |-> ps[i].args[2]]

\* C14: During fan-out there is one pass per enabled platform whose
\* architecture the target supports, in the order of the platform list;
\* while the pass of architecture a runs, state.platform is a, the build
\* path is <base build>/build_a and the install path <base build>/install_a,
\* no two passes sharing a directory; the merge takes the install
\* directories of the passes performed, in order, writes to the final
\* install path computed before the fan-out, and leaves no top-level entry
\* named after an architecture directory there.
C14_PassIsolation ==
    (mode = "run" /\ out.status # "new" /\ out.target # "") =>
        /\ IsPrefixOf(PassesBegun, ExpectedPasses)
        /\ StepsOf("merge", out.target) # {} => PassesBegun = ExpectedPasses
        /\ \A i \in Building :
              LET f == runs[i]
              IN  f.fan =>
                    /\ f.name = out.target
                    /\ f.st.platform = ExpectedPasses[Len(PassesBegun)]
                    /\ f.st.build_path = Append(f.base_build_path, BuildDirName(f.st.platform))
                    /\ f.st.install_path = Append(f.base_build_path, InstallDirName(f.st.platform))
                    /\ f.st.install_path \notin Range(f.install_paths)
                    /\ f.st.build_path \notin Range(f.install_paths)
                    /\ f.install_paths =
                          [j \in 1..(Len(PassesBegun) - 1) |->
                              Append(f.base_build_path, InstallDirName(ExpectedPasses[j]))]
        /\ \A i \in 1..Len(runs) :
              LET f == runs[i]
                  d == <<Destination(f.name), f.name>>
              IN  (f.fan /\ f.pc = "return") =>
                    /\ f.base_install_path = d
                    /\ [j \in 1..Len(srcs) |-> srcs[j].root] = f.install_paths
                    /\ f.install_paths =
                          [j \in 1..Len(ExpectedPasses) |->
                              Append(f.base_build_path, InstallDirName(ExpectedPasses[j]))]
                    /\ f.install_paths # <<>> =>
                          /\ d \in DOMAIN fs.trees
                          /\ \A p \in DOMAIN fs.trees[d] : p[1] \notin SuffixedNames
                          /\ \A p \in DOMAIN srcs[1].tree : ~IsLa(p) => p \in DOMAIN fs.trees[d]

\* the install trees of two passes have been merged into the final install path
C14_Witness ==
    /\ mode = "run" /\ runs # <<>>
    /\ Top.fan /\ Top.pc = "return"
    /\ Len(Top.install_paths) = 2
    /\ Top.base_install_path \in DOMAIN fs.trees

\* ------------------------------------ source acquisition: failure, listing

Failed(r, kind, name) == \E i \in Indexes(r, kind, name) : r.events[i].exit # 0

\* the invocation failed while fetching and writing, or at the verification
ArchiveRejected(r) == Failed(r, "net", "urlopen") \/ Failed(r, "step", "verify")

NoPartialDirectory(f) == \A q \in DOMAIN f.dirs : f.dirs[q].complete

\* C15: After a download_source invocation that failed while fetching and
\* writing the archive, at the checksum or at the extraction, the error has
\* propagated and the disk holds no partially written archive file and no
\* partially extracted directory, so that the next invocation fetches the
\* archive again, respectively extracts it again.
C15_FailureLeavesCleanState ==
    (mode = "src" /\ runs # <<>>) =>
        /\ ArchiveRejected(Cur) => (Cur.raised /\ ~FileExists(Cur.after, ArchivePath))
        /\ Failed(Cur, "tool", "tar-xf") => (Cur.raised /\ NoPartialDirectory(Cur.after))
        /\ (Len(runs) = 2 /\ ArchiveRejected(Prev)) => Indexes(Cur, "net", "urlopen") # {}
        /\ (Len(runs) = 2 /\ Failed(Prev, "tool", "tar-xf")
              /\ Indexes(Cur, "tool", "tar-tf") # {} /\ ~Failed(Cur, "tool", "tar-tf"))
           => Indexes(Cur, "tool", "tar-xf") # {}

\* the top-level names of the members of an archive
LeadingComponents(data) == {EntryOf(data[i])[1] : i \in 1..Len(data)}

\* all members lie below one directory
SharesOneComponent(data) ==
    /\ Cardinality(LeadingComponents(data)) = 1
    /\ \E i \in 1..Len(data) : Len(EntryOf(data[i])) >= 2

\* C19: Once the archive is listed, the members are extracted only when all
\* of them share one leading path component, and then into
\* source/<that component>, which becomes state.source; when they share none
\* the invocation fails before any extraction.
C19_CommonLeadingComponent ==
    (mode = "src" /\ runs # <<>>) =>
        \A i \in Indexes(Cur, "tool", "tar-tf") :
            LET data == Cur.before.files[ArchivePath]
                listed == IF FileExists(Cur.before, ArchivePath) THEN data
                          ELSE Cur.events[i - 1].args[2]
            IN  Cur.events[i].exit = 0 =>
                    IF SharesOneComponent(listed)
                    THEN ~Cur.raised =>
                            Cur.st.source =
                                Join(SourceDir, CHOOSE x \in LeadingComponents(listed) : TRUE)
                    ELSE Cur.raised /\ Indexes(Cur, "tool", "tar-xf") = {}

\* ----------------------------------------------- prepare_source: actions
\* One target's source is acquired by engine processes that follow one
\* another; a process may be killed in the middle of the acquisition, and
\* prepare_source may be called again on the BuildState of the process.

\* how deep below source/ a BuildState's source path may come to lie
MaxDepth == 4

\* what prepare_source of the target asks for: an archive with its patches,
\* or a repository with or without a branch
AcqRequests ==
    {[kind |-> "download", checksum |-> Sha256Hex(GoodArchive), patches |-> pa] :
        pa \in {NoPatches, [type |-> "seq", names |-> <<"p1", "p2">>]}}
    \cup {[kind |-> "git", branch |-> b] : b \in {"", "g3.3mgw"}}

\* Target.prepare_source(state): (c, st)
PrepareSourceOf(c, st, r, o) ==
    IF r.kind = "git" THEN [c |-> CheckoutGit(c, st, r.branch, o), st |-> st]
    ELSE DownloadSource(c, st, r, o)

\* what the outside answers during one prepare_source
AcqOracles(f, st, r) ==
    IF r.kind = "git"
    THEN {[QuietOracle EXCEPT !.clone = cl, !.checkout = co] :
             cl \in {0, 1}, co \in IF r.branch = "" THEN {0} ELSE {0, 1}}
    ELSE DownloadOracles(f, st.source, r)

\* the points of prepare_source at which the process may be killed
InterruptPoints(r) ==
    IF r.kind = "git"
    THEN {"clone"} \cup (IF r.branch = "" THEN {} ELSE {"checkout"})
    ELSE {"download", "extract"} \cup (IF Len(r.patches.names) >= 2 THEN {"patch"} ELSE {})

\* the disk a process leaves that is killed at point pt of prepare_source:
\* no handler and no later statement of the code has run
KilledAt(f, st, r, pt) ==
    LET filepath == Append(st.source, ArchiveName)
        written == PutFile(MakeDirs(f, st.source), filepath, GoodArchive)
    IN  CASE pt = "clone" ->        \* inside git clone
                PutDir(f, st.source, Dir("git", FALSE, {}, ""))
          [] pt = "checkout" ->     \* between the clone and the checkout
                CheckoutGit(Ctx(f, <<>>), st, "", QuietOracle).fs
          [] pt = "download" ->     \* inside f.write(data)
                PutFile(MakeDirs(f, st.source), filepath, SubSeq(GoodArchive, 1, 1))
          [] pt = "extract" ->      \* inside tar -xf
                Extract(written, st.source, GoodArchive, FALSE)
          [] OTHER ->               \* between the first patch and the second
                DownloadSource(Ctx(f, <<>>), st,
                               [r EXCEPT !.patches.names = SubSeq(@, 1, 1)],
                               [QuietOracle EXCEPT !.netData = GoodArchive,
                                                   !.dryOk = {r.patches.names[1]}]).c.fs

AcqInit ==
    /\ mode = "acq"
    /\ fs = EmptyFs
    /\ bs = FreshBuildState
    /\ req \in AcqRequests
    /\ runs = <<>>
    /\ log = <<>>
    /\ srcs = <<>>
    /\ out = NoOut

\* the first engine process is killed inside prepare_source
Interrupt ==
    /\ mode = "acq" /\ runs = <<>>
    /\ \E pt \in InterruptPoints(req) :
         LET f == KilledAt(fs, FreshBuildState, req, pt)
             c == Ctx(f, <<Ev("kill", pt, 0, <<>>)>>)
         IN  /\ fs' = f
             /\ log' = c.log
             /\ runs' = <<Summary("killed", TRUE, fs, c, FreshBuildState)>>
    /\ UNCHANGED <<mode, bs, req, srcs, out>>

\* prepare_source on the BuildState st
Acquire(st, fresh) ==
    \E o \in AcqOracles(fs, st, req) :
        \E res \in {PrepareSourceOf(Ctx(fs, <<>>), st, req, o)} :
            /\ fs' = res.c.fs
            /\ bs' = res.st
            /\ log' = res.c.log
            /\ runs' = Remember(runs, Summary("prepare", fresh, fs, res.c, res.st))

\* a new engine process: Builder.__init__, then target.prepare_source(state)
Prepare ==
    /\ mode = "acq"
    /\ Acquire(FreshBuildState, TRUE)
    /\ UNCHANGED <<mode, req, srcs, out>>

\* prepare_source once more on the BuildState it has succeeded on
PrepareAgain ==
    /\ mode = "acq" /\ runs # <<>>
    /\ Last(runs).op = "prepare" /\ ~Last(runs).raised
    /\ Len(bs.source) < MaxDepth
    /\ Acquire(bs, FALSE)
    /\ UNCHANGED <<mode, req, srcs, out>>

AcqNext == Interrupt \/ Prepare \/ PrepareAgain

SpecAcq == AcqInit /\ [][AcqNext]_vars

\* ------------------------------------------------ prepare_source: claims

\* state.source of st is a complete source tree for request r
CompleteTree(f, st, r) ==
    /\ DirExists(f, st.source)
    /\ f.dirs[st.source].complete
    /\ IF r.kind = "git" THEN f.dirs[st.source].branch = r.branch
       ELSE Range(r.patches.names) \subseteq f.dirs[st.source].applied

\* C16: When the previous process was killed at some point of the source
\* acquisition, prepare_source in a new process either fails or leaves
\* state.source at a complete source tree: all of it extracted and every
\* named patch applied, or cloned and on the requested branch.
C16_ResumeAfterInterrupt ==
    (mode = "acq" /\ Len(runs) = 2 /\ Prev.op = "killed" /\ Cur.op = "prepare" /\ Cur.fresh
        /\ ~Cur.raised)
    => CompleteTree(Cur.after, Cur.st, req)

\* C17: prepare_source called again on the BuildState it has succeeded on
\* does nothing: no clone, no fetch, no extraction, and state.source and
\* state.build_path stay as they are, for a repository and for an archive.
C17_PrepareTwiceSameState ==
    (mode = "acq" /\ Len(runs) = 2 /\ Prev.op = "prepare" /\ ~Prev.raised
        /\ Cur.op = "prepare" /\ ~Cur.fresh)
    => /\ Indexes(Cur, "tool", "git-clone") = {}
       /\ Indexes(Cur, "net", "urlopen") = {}
       /\ Indexes(Cur, "tool", "tar-xf") = {}
       /\ Cur.st = Prev.st

LinksMade == {i \in 1..Len(log) : log[i].kind = "fs" /\ log[i].name \in {"symlink", "copylink"}}

\* the prefix path a link event of the log has written
MadeAt(i) == SubSeq(log[i].args[2], Len(PrefixRoot) + 1, Len(log[i].args[2]))

\* the entry a link event of the log has written
MadeEntry(i) ==
    IF log[i].name = "symlink" THEN LinkTo(log[i].args[1])
    ELSE fs.deps.files[Tail(log[i].args[1])]

\* the entries of the prefix the run has to leave alone
Kept == {p \in DOMAIN out.pre.files : ~Dangling(Before, p)}

\* C18: symlink_directory leaves every regular file and every non-dangling
\* link of the prefix as it was; for a non-directory entry of a dependency
\* it makes a link only where nothing is at the destination path, so that of
\* two dependencies with the same relative path the one linked first keeps
\* the entry; the directories of a dependency exist in the prefix after a
\* completed run and their entries have been gone through.
C18_ExistingEntriesKept ==
    (mode = "prefix" /\ out.done) =>
        /\ \A p \in Kept : p \in DOMAIN fs.prefix.files /\ fs.prefix.files[p] = out.pre.files[p]
        /\ out.pre.dirs \subseteq fs.prefix.dirs
        /\ \A i \in LinksMade :
              /\ MadeAt(i) \notin Kept
              /\ MadeAt(i) \notin out.pre.dirs
              /\ MadeAt(i) \in DOMAIN out.pre.files =>
                    \E j \in 1..(i - 1) : log[j].name = "remove" /\ log[j].args[1] = log[i].args[2]
              /\ \A j \in LinksMade : MadeAt(j) = MadeAt(i) => j = i
              /\ fs.prefix.files[MadeAt(i)] = MadeEntry(i)
        /\ ~out.raised =>
              \A q \in DOMAIN fs.deps.files :
                  Len(q) >= 2 =>
                      /\ Tail(q) \in DOMAIN fs.prefix.files
                      /\ \A k \in 1..(Len(q) - 2) : SubSeq(q, 2, k + 1) \in fs.prefix.dirs

\* two dependencies hold the same relative path: the one walked first has
\* its link in the prefix, next to a regular file that was there before
C18_Witness ==
    /\ mode = "prefix" /\ out.done /\ ~out.raised
    /\ <<"d1", "a">> \in DOMAIN fs.deps.files /\ <<"d2", "a">> \in DOMAIN fs.deps.files
    /\ <<"a">> \notin DOMAIN out.pre.files
    /\ fs.prefix.files[<<"a">>] = LinkTo(<<"deps", "d2", "a">>)
    /\ <<"d1", "lib", "b">> \in DOMAIN fs.deps.files
    /\ <<"lib", "b">> \in DOMAIN out.pre.files /\ out.pre.files[<<"lib", "b">>] = FileEntry
    /\ fs.prefix.files[<<"lib", "b">>] = FileEntry

\* the fan-out passes about to configure for an architecture that is not
\* the one of the running machine
CrossConfiguring == {i \in Configuring : runs[i].fan /\ runs[i].st.platform # req.machine}

\* the build directory of the native pass of run f
NativeBuildPath(f) == Append(f.base_build_path, BuildDirName(req.machine))

\* C21 as amended: Whenever the architecture of the running machine is among
\* the enabled platforms it is first in the platform list, so that in a
\* fan-out a native pass runs before every cross-architecture pass.  When a
\* cross-architecture pass begins its configure, state.native_build_path is
\* the build directory of the native pass of this run if the native
\* architecture is enabled and supported by the target, and is unset
\* otherwise.
C21_NativeFirst ==
    (mode = "run" /\ out.status # "new" /\ out.target # "") =>
        /\ \A i \in 1..Len(runs) :
              req.machine \in Range(runs[i].platforms) => runs[i].platforms[1] = req.machine
        /\ req.machine \in Range(PassesBegun) => PassesBegun[1] = req.machine
        /\ \A i \in CrossConfiguring :
              runs[i].st.native_build_path =
                  IF req.machine \in Range(runs[i].platforms)
                        /\ req.machine \notin UnsupportedArchitectures(runs[i].name)
                  THEN NativeBuildPath(runs[i])
                  ELSE NoPath

\* C21 as stated: at the configure of every cross-architecture pass the
\* native build path has been set
C21_Original ==
    mode = "run" =>
        \A i \in CrossConfiguring : runs[i].st.native_build_path = NativeBuildPath(runs[i])

\* the cross-architecture pass begins its configure after the native pass
C21_Witness ==
    /\ mode = "run"
    /\ \E i \in CrossConfiguring :
          /\ runs[i].k = 2
          /\ runs[i].st.native_build_path = NativeBuildPath(runs[i])
          /\ Len(HooksOf(runs[i].name)) = Len(HookOrder)

\* ---------------------------------------------------------------------
\* Builder.run: the statements before the first configure
\* ---------------------------------------------------------------------

StepBefore(i, name, target) == \E j \in 1..(i - 1) : IsStep(log[j], name, target)

\* C22 as amended: In Builder.run of aedi/builder.py the shared prefix
\* directory is ensured to exist, and its symlink farm populated, after the
\* source acquisition of the run's target and after the install path is set
\* (a previous install removed), and in any case before the target's first
\* configure.
C22_PrefixBeforeConfigure ==
    mode = "run" =>
        \A target \in {out.target, DOWNLOAD_CMAKE_TARGET_NAME} :
            /\ \A i \in StepsOf("configure", target) : StepBefore(i, "prefix", target)
            /\ \A i \in StepsOf("prefix", target) :
                  /\ StepBefore(i, "prepare_source", target)
                  /\ StepBefore(i, "install_path", target)
                  /\ ~StepBefore(i, "prefix", target)
                  /\ ~StepBefore(i, "configure", target)

\* C22 as the specification states it: the prefix directory is ensured
\* before the source acquisition of the requested target begins
C22_Original ==
    mode = "run" =>
        \A i \in StepsOf("prepare_source", out.target) : StepBefore(i, "prefix", out.target)

C22_Witness ==
    /\ mode = "run" /\ out.target # ""
    /\ StepsOf("configure", out.target) # {}
    /\ \E i \in 1..Len(log) : log[i].kind = "fs" /\ log[i].name = "symlink"

\* the steps of the nested run of the cmake download
NestedSteps == {k \in 1..Len(log) : log[k].kind = "run" /\ log[k].args[1] = DOWNLOAD_CMAKE_TARGET_NAME}

\* C23 as amended: For a requested target other than the cmake-download
\* target, Builder.run performs one complete nested run of the
\* cmake-download target after the source acquisition of the requested
\* target and after the removal of its previous install, and before the
\* prefix directory is ensured and before its first configure; no step of
\* the requested target's run happens while the nested run is under way.
C23_NestedAfterSource ==
    (mode = "run" /\ out.target \notin {"", DOWNLOAD_CMAKE_TARGET_NAME}) =>
        /\ \A n \in StepsOf("nested", out.target) :
              /\ StepBefore(n, "prepare_source", out.target)
              /\ StepBefore(n, "install_path", out.target)
              /\ ~StepBefore(n, "nested", out.target)
              /\ ~StepBefore(n, "prefix", out.target)
              /\ \A k \in NestedSteps : n < k
        /\ \A i \in StepsOf("prefix", out.target) :
              \E n \in StepsOf("nested", out.target) :
                 \E r \in StepsOf("return", DOWNLOAD_CMAKE_TARGET_NAME) :
                    /\ n < r /\ r < i
                    /\ \A k \in NestedSteps : k <= r
                    /\ \A k \in (n + 1)..r : log[k].kind = "run" => k \in NestedSteps
                    /\ \E k \in NestedSteps : log[k].name = "post_build"
        /\ \A i \in StepsOf("configure", out.target) : StepBefore(i, "prefix", out.target)

\* C23 as the specification states it: the nested run is complete before
\* the source acquisition of the requested target and before the removal of
\* its previous install
C23_Original ==
    (mode = "run" /\ out.target \notin {"", DOWNLOAD_CMAKE_TARGET_NAME}) =>
        \A i \in StepsOf("prepare_source", out.target) \cup StepsOf("install_path", out.target) :
            StepBefore(i, "return", DOWNLOAD_CMAKE_TARGET_NAME)

C23_Witness ==
    /\ mode = "run" /\ out.target \notin {"", DOWNLOAD_CMAKE_TARGET_NAME}
    /\ StepsOf("configure", out.target) # {}
    /\ \E i \in 1..Len(log) : log[i].kind = "fs" /\ log[i].name = "rmtree"
    /\ StepsOf("return", DOWNLOAD_CMAKE_TARGET_NAME) # {}

\* ---------------------------------------------------------------------
\* CaseInsensitiveDict
\* ---------------------------------------------------------------------

\* a key is a sequence of characters
LowerChar(ch) == CASE ch = "A" -> "a" [] ch = "B" -> "b" [] OTHER -> ch

\* str.lower()
Lower(key) == [i \in 1..Len(key) |-> LowerChar(key[i])]

DictKeys == {<<"a">>, <<"A">>, <<"a", "b">>, <<"A", "b">>, <<"A", "B">>, <<"1">>}

DictValues == {1, 2}

\* self._store: an OrderedDict, as the sequence of its items <<k, <<key, value>>>>
Slot(store, k) == {i \in 1..Len(store) : store[i][1] = k}

\* OrderedDict.__setitem__: a present key keeps its position
StorePut(store, k, item) ==
    IF Slot(store, k) = {} THEN Append(store, <<k, item>>)
    ELSE [i \in 1..Len(store) |-> IF store[i][1] = k THEN <<k, item>> ELSE store[i]]

\* the mutant: the entry is stored under the key as given
SetItemCased(store, key, value) == StorePut(store, key, <<key, value>>)

\* CaseInsensitiveDict.__setitem__
SetItem(store, key, value) == StorePut(store, Lower(key), <<key, value>>)

\* CaseInsensitiveDict.__getitem__: the value, or KeyError
GetItem(store, key) ==
    LET at == Slot(store, Lower(key))
    IN  IF at = {} THEN [raised |-> TRUE, value |-> 0]
        ELSE [raised |-> FALSE, value |-> store[CHOOSE i \in at : TRUE][2][2]]

\* CaseInsensitiveDict.__delitem__: the store without the entry, or KeyError
DelItem(store, key) ==
    LET at == Slot(store, Lower(key))
        Keep(e) == e[1] # Lower(key)
    IN  IF at = {} THEN [raised |-> TRUE, store |-> store]
        ELSE [raised |-> FALSE, store |-> SelectSeq(store, Keep)]

\* CaseInsensitiveDict.__iter__
Iter(store) == [i \in 1..Len(store) |-> store[i][2][1]]

\* CaseInsensitiveDict.__len__
DictLen(store) == Len(store)

\* CaseInsensitiveDict.__init__: update(data) sets the items of data in turn
RECURSIVE DictOf(_)
DictOf(data) ==
    IF data = <<>> THEN <<>>
    ELSE SetItem(DictOf(SubSeq(data, 1, Len(data) - 1)), data[Len(data)][1], data[Len(data)][2])

InitialData == {<<>>, << <<<<"A">>, 1>> >>, << <<<<"a", "b">>, 2>>, <<<<"1">>, 1>> >>}

\* the last operation on the dictionary: the store it met and what it gave
Done(op, key, value, before, raised, result) ==
    [op |-> op, key |-> key, value |-> value, before |-> before, raised |-> raised,
     result |-> result]

DictInit ==
    /\ mode = "dict"
    /\ \E data \in InitialData : fs = DictOf(data)
    /\ bs = <<>> /\ req = <<>> /\ runs = <<>> /\ log = <<>> /\ srcs = <<>>
    /\ out = Done("new", <<>>, 0, <<>>, FALSE, <<>>)

DictSet ==
    /\ mode = "dict"
    /\ \E key \in DictKeys : \E value \in DictValues :
          /\ fs' = SetItem(fs, key, value)
          /\ out' = Done("set", key, value, fs, FALSE, <<>>)
    /\ UNCHANGED <<mode, bs, req, runs, log, srcs>>

DictGet ==
    /\ mode = "dict"
    /\ \E key \in DictKeys :
          LET r == GetItem(fs, key)
          IN  out' = Done("get", key, 0, fs, r.raised, <<r.value>>)
    /\ UNCHANGED <<mode, fs, bs, req, runs, log, srcs>>

DictDel ==
    /\ mode = "dict"
    /\ \E key \in DictKeys :
          LET r == DelItem(fs, key)
          IN  /\ fs' = r.store
              /\ out' = Done("del", key, 0, fs, r.raised, <<>>)
    /\ UNCHANGED <<mode, bs, req, runs, log, srcs>>

DictIter ==
    /\ mode = "dict"
    /\ out' = Done("iter", <<>>, DictLen(fs), fs, FALSE, Iter(fs))
    /\ UNCHANGED <<mode, fs, bs, req, runs, log, srcs>>

DictNext == DictSet \/ DictGet \/ DictDel \/ DictIter

SpecDict == DictInit /\ [][DictNext]_vars

\* the case variants of key among the keys in use
Variants(key) == {k \in DictKeys : Lower(k) = Lower(key)}

\* the entries of store whose key, as last set, is a case variant of key
EntriesFor(store, key) == {i \in 1..Len(store) : Lower(store[i][2][1]) = Lower(key)}

\* what a lookup of key in store has to give: the value of its one entry
ValueFor(store, key) == {store[i][2][2] : i \in EntriesFor(store, key)}

\* C24: After any sequence of set and delete operations the dictionary holds
\* at most one entry per lower-cased key.  A set under any case variant of a
\* key makes every case variant look up the value just set and makes
\* iteration yield the key in the casing just used, replacing the entry that
\* was there; a delete under any case variant removes that entry, or raises
\* KeyError when there is none; a lookup gives the value of the entry,
\* whatever the casing asked for; entries of other keys are left as they
\* were.
C24_OneEntryPerLowerKey ==
    mode = "dict" =>
        /\ \A i, j \in 1..Len(fs) : Lower(fs[i][2][1]) = Lower(fs[j][2][1]) => i = j
        /\ DictLen(fs) = Cardinality({Lower(k) : k \in Range(Iter(fs))})
        /\ out.op = "set" =>
              /\ \A k \in Variants(out.key) : ValueFor(fs, k) = {out.value}
              /\ Range(Iter(fs)) \cap Variants(out.key) = {out.key}
              /\ \A k \in DictKeys \ Variants(out.key) : ValueFor(fs, k) = ValueFor(out.before, k)
              /\ Range(Iter(fs)) \ Variants(out.key) = Range(Iter(out.before)) \ Variants(out.key)
        /\ out.op = "del" =>
              /\ out.raised <=> EntriesFor(out.before, out.key) = {}
              /\ \A k \in Variants(out.key) : EntriesFor(fs, k) = {}
              /\ {fs[i][2] : i \in 1..Len(fs)}
                    = {out.before[i][2] : i \in (1..Len(out.before)) \ EntriesFor(out.before, out.key)}
        /\ out.op = "get" =>
              /\ fs = out.before
              /\ out.raised <=> EntriesFor(fs, out.key) = {}
              /\ ~out.raised => ValueFor(fs, out.key) = {out.result[1]}
        /\ out.op = "iter" =>
              /\ fs = out.before
              /\ Len(out.result) = Len(fs)
              /\ \A i \in 1..Len(fs) : out.result[i] = fs[i][2][1]

\* a key has been set in one casing, set again in another, and then looked
\* up in a third
C24_Witness ==
    /\ mode = "dict" /\ out.op = "get" /\ ~out.raised
    /\ \E i \in 1..Len(fs) :
          /\ Lower(fs[i][2][1]) = Lower(out.key)
          /\ fs[i][2][1] # out.key
          /\ fs[i][2][1] # Lower(out.key)
    /\ Len(fs) > 1

\* ---------------------------------------------------------------------
\* merge: the missing-file pass, libtool archives
\* ---------------------------------------------------------------------

\* the log entries that put a file into the destination: a copy, or a lipo
\* that succeeded
Writes ==
    {i \in 1..Len(log) :
        IsEv(log[i], "fs", "copy") \/ (IsEv(log[i], "tool", "lipo") /\ log[i].exit = 0)}

\* the destination path (relative to the destination root) written by entry i
Written(i) == SubSeq(Last(log[i].args), Len(DstRoot) + 1, Len(Last(log[i].args)))

\* the primary merge copies and fuses out of the first tree; every pass of
\* the missing-file kind copies out of a later one
MissingPassCopies ==
    {i \in LogIdx("fs", "copy") : ~IsPrefixOf(srcs[1].root, log[i].args[1])}

\* C25: For any number of per-architecture trees, the missing-file pass
\* only adds files that are absent from the merged destination: a file it
\* copies was put there neither by the primary merge nor by an earlier
\* rotation (nor was there before the merge), and whatever the merge put
\* into the destination is still there when it ends.
C25_MissingPassOnlyAdds ==
    (mode = "merge" /\ out.done) =>
        /\ \A i \in MissingPassCopies :
              /\ Written(i) \notin DOMAIN srcs[1].tree
              /\ \A j \in Writes : j < i => Written(j) # Written(i)
        /\ \A i \in Writes : Written(i) \in DOMAIN out.dst

\* the libtool archives of tree i
LaFiles(i) == {p \in DOMAIN srcs[i].tree : Last(p) \in LaNames}

\* the paths a log entry names
Named(e) == Range(e.args)

\* C26: After _merge_install_paths completes the destination contains, at
\* every directory depth, no file whose name ends in '.la', whichever tree
\* contained it; no lipo, no codesign, no copy and no mismatch warning names
\* such a file, in the primary merge or in the missing-file pass.
C26_NoLibtoolArchives ==
    (mode = "merge" /\ out.done) =>
        /\ \A p \in DOMAIN out.dst : Last(p) \notin LaNames
        /\ \A i \in 1..Len(log) :
              log[i].kind \in {"tool", "fs", "warn"} =>
                  \A q \in Named(log[i]) : Last(q) \notin LaNames

\* a merge has completed over a first tree with a libtool archive and a
\* later tree with one the first tree lacks, at two depths
C26_Witness ==
    /\ mode = "merge" /\ out.done /\ ~out.raised
    /\ LaFiles(1) # {}
    /\ \E i \in 2..Len(srcs) : LaFiles(i) \ LaFiles(1) # {}
    /\ \E i, j \in 1..Len(srcs) : \E p \in LaFiles(i) : \E q \in LaFiles(j) : Len(p) # Len(q)

\* ---------------------------------------------------------------------
\* Builder.run: the previous install
\* ---------------------------------------------------------------------

\* the runs about to begin the first configure of their target
FirstConfiguring == {i \in Configuring : StepsOf("configure", runs[i].name) = {}}

\* the file of a previous install
StaleFiles == DOMAIN StaleTree

\* the tree at path q is the same in both states, or absent in both
SameTree(q) ==
    /\ (q \in DOMAIN fs.trees) <=> (q \in DOMAIN fs'.trees)
    /\ q \in DOMAIN fs.trees => fs'.trees[q] = fs.trees[q]

\* no run in Xcode mode is at the post_build of a target installed under deps
NoDepsInstall ==
    \A i \in 1..Len(runs) :
        (runs[i].pc = "post_build" /\ runs[i].st.xcode) => Destination(runs[i].name) = "output"

LeftoverFree ==
    mode = "run" =>
        /\ \A i \in FirstConfiguring :
              ~runs[i].st.xcode => FinalInstallPath(runs[i].name) \notin DOMAIN fs.trees
        /\ (out.status = "ok" /\ ~req.args.xcode /\ FinalInstallPath(out.target) \in DOMAIN fs.trees)
              => StaleFiles \cap DOMAIN fs.trees[FinalInstallPath(out.target)] = {}

XcodeUntouched ==
    (mode = "run" /\ req.args.xcode /\ NoDepsInstall) =>
        \A n \in {out.target} \ {""} : SameTree(FinalInstallPath(n))

\* C27: In a run that is not in Xcode mode nothing exists at the final
\* install path of the target when its first configure begins, and after a
\* successful run the final install tree holds no file of a previous
\* install; in Xcode mode no step of Builder.run and no post_build of a
\* final application changes what is at the install path.
C27_NoLeftoverInstall == []LeftoverFree /\ [][XcodeUntouched]_vars

\* a previous install was there, and the run has succeeded with the target
\* installed
C27_Witness ==
    /\ mode = "run" /\ out.status = "ok" /\ ~req.args.xcode
    /\ \E i \in 1..Len(log) : log[i].kind = "fs" /\ log[i].name = "rmtree"
    /\ FinalInstallPath(out.target) \in DOMAIN fs.trees

\* in Xcode mode a run over a previous install has succeeded for a final
\* application
C27_WitnessXcode ==
    /\ mode = "run" /\ out.status = "ok" /\ req.args.xcode
    /\ Destination(out.target) = "output"
    /\ FinalInstallPath(out.target) \in DOMAIN fs.trees
    /\ fs.trees[FinalInstallPath(out.target)] = StaleTree

\* ---------------------------------------------------------------------
\* download_source: the state it returns
\* ---------------------------------------------------------------------

\* the leading component of the first member of an archive whose name has
\* a separator
LeadingOf(data) ==
    LET Sep(i) == Len(EntryOf(data[i])) > 1
        at == CHOOSE i \in 1..Len(data) : Sep(i) /\ \A j \in 1..(i - 1) : ~Sep(j)
    IN  EntryOf(data[at])[1]

\* pathlib: path / component
Slash(path, name) == IF name = "." THEN path ELSE path \o <<name>>

\* C28: download_source changes state.source and state.build_path only as
\* its last step: on success both are the values before the call extended
\* by the leading path component of the archive; when the fetch, the
\* checksum, the listing, the extraction or a patch fails, both are left as
\* they were; and when the source tree was supplied externally,
\* download_source changes neither the state nor the disk and starts
\* nothing.
C28_PathsAdjustedLast ==
    mode = "src" =>
        /\ runs # <<>> =>
              /\ Cur.st.external_source = FreshBuildState.external_source
              /\ Cur.raised => Cur.st = FreshBuildState
              /\ ~Cur.raised =>
                    /\ FileExists(Cur.after, ArchivePath)
                    /\ Cur.st.source = Slash(SourceDir, LeadingOf(Cur.after.files[ArchivePath]))
                    /\ Cur.st.build_path = Slash(BuildDir, LeadingOf(Cur.after.files[ArchivePath]))
        /\ srcs # <<>> =>
              /\ ~srcs[1].raised
              /\ srcs[1].st = ExternalBuildState
              /\ srcs[1].after = srcs[1].before
              /\ srcs[1].events = <<>>

\* one download has failed at its second patch, after the first was
\* applied; the next has succeeded; and download_source has been called on
\* an external source tree
C28_Witness ==
    /\ mode = "src" /\ Len(runs) = 2 /\ srcs # <<>>
    /\ Prev.raised /\ Indexes(Prev, "tool", "patch") # {}
    /\ ~Cur.raised /\ Cur.st # FreshBuildState

\* ---------------------------------------------------------------------
\* package-config files: update_pc_file, update_pc_files
\* ---------------------------------------------------------------------

\* A text is a sequence of symbols: the words 'prefix=', 'Libs:' and
\* 'Libs.private:' are one symbol each, everything else is one character.
NL == "\n"

MaxLines == 2

\* f.readlines(): the lines of a text, each with its line end; a last line
\* may have none
RECURSIVE ReadLines(_)
ReadLines(text) ==
    IF text = <<>> THEN <<>>
    ELSE LET ends == {i \in 1..Len(text) : text[i] = NL}
             cut == IF ends = {} THEN Len(text)
                    ELSE CHOOSE i \in ends : \A j \in ends : i <= j
         IN  <<SubSeq(text, 1, cut)>> \o ReadLines(SubSeq(text, cut + 1, Len(text)))

\* f.writelines(lines)
RECURSIVE WriteLines(_)
WriteLines(lines) == IF lines = <<>> THEN <<>> ELSE lines[1] \o WriteLines(Tail(lines))

\* line.startswith(word), for a word that is one symbol
StartsWith(line, word) == line # <<>> /\ line[1] = word

\* sub in line
Contains(line, sub) ==
    \E i \in 0..(Len(line) - Len(sub)) : SubSeq(line, i + 1, i + Len(sub)) = sub

\* line.rstrip('\n')
RECURSIVE RStrip(_)
RStrip(line) ==
    IF line # <<>> /\ line[Len(line)] = NL THEN RStrip(SubSeq(line, 1, Len(line) - 1)) ELSE line

\* extra_libs of a package without an entry in pkg_libs
None == <<"None">>

\* the mutant: the extra libraries are appended to every 'Libs:' line
PatchedLineAlways(line, extra_libs) ==
    IF StartsWith(line, "prefix=") THEN <<"prefix=", NL>>
    ELSE IF extra_libs # None /\ extra_libs # <<>> /\ StartsWith(line, "Libs:")
         THEN RStrip(line) \o <<" ">> \o extra_libs \o <<NL>>
    ELSE line

\* the body of the loop of update_pc_file
PatchedLine(line, extra_libs) ==
    IF StartsWith(line, "prefix=") THEN <<"prefix=", NL>>
    ELSE IF extra_libs # None /\ extra_libs # <<>> /\ StartsWith(line, "Libs:")
         THEN IF ~Contains(line, extra_libs)
              THEN RStrip(line) \o <<" ">> \o extra_libs \o <<NL>>
              ELSE line
    ELSE line

\* Target.update_pc_file
UpdatePcFile(text, extra_libs) ==
    LET content == ReadLines(text)
    IN  WriteLines([i \in 1..Len(content) |-> PatchedLine(content[i], extra_libs)])

PcFileNames == {"a.pc"}

OtherFileNames == {"n.txt"}

\* os.path.splitext(filename)[0]
SplitExt(filename) == IF filename = "a.pc" THEN "a" ELSE "n"

\* Target.update_pc_files over the files of deps/<target>
UpdatePcFiles(files, pkg_libs) ==
    [n \in DOMAIN files |->
        IF n \in PcFileNames
        THEN UpdatePcFile(files[n], IF SplitExt(n) \in DOMAIN pkg_libs THEN pkg_libs[SplitExt(n)]
                                    ELSE None)
        ELSE files[n]]

PcLines ==
    {<<"prefix=", "/", "u", NL>>, <<"prefix=", NL>>, <<"x", "prefix=", NL>>,
     <<"Libs:", " ", "-", "a", NL>>, <<"Libs:", " ", "-", "a", "b", NL>>, <<"Libs:", NL>>,
     <<"Libs.private:", " ", "-", "b", NL>>, <<NL>>}

PcTexts ==
    LET whole == UNION {{WriteLines(ls) : ls \in [1..n -> PcLines]} : n \in 0..MaxLines}
    IN  whole \cup {RStrip(t) : t \in whole}

PkgLibs == {<<>>, ("a" :> <<>>), ("a" :> <<"-", "a">>), ("a" :> <<"-", "b">>), ("n" :> <<"-", "b">>)}

PcInit ==
    /\ mode = "pc"
    /\ \E t \in PcTexts : \E u \in {<<"prefix=", "/", "u", NL>>, <<"Libs:", NL>>} :
          fs = ("a.pc" :> t) @@ ("n.txt" :> u)
    /\ req \in PkgLibs
    /\ out = [n |-> 0, before |-> <<>>]
    /\ bs = <<>> /\ runs = <<>> /\ log = <<>> /\ srcs = <<>>

\* self.update_pc_files(builder), at the end of an install; a second install
\* runs it again
UpdatePc ==
    /\ mode = "pc" /\ out.n < 2
    /\ fs' = UpdatePcFiles(fs, req)
    /\ out' = [n |-> out.n + 1, before |-> fs]
    /\ UNCHANGED <<mode, bs, req, runs, log, srcs>>

PcNext == UpdatePc

SpecPc == PcInit /\ [][PcNext]_vars

\* the extra libraries given for file n, if any are
ExtraGiven(n) ==
    IF SplitExt(n) \in DOMAIN req /\ req[SplitExt(n)] # <<>> THEN {req[SplitExt(n)]} ELSE {}

\* the line a rewrite has to make of line under the rule of the claim
Rewritten(line, given) ==
    IF line[1] = "prefix=" THEN <<"prefix=", NL>>
    ELSE IF line[1] = "Libs:" /\ \E x \in given : ~Contains(line, x)
         THEN LET x == CHOOSE x \in given : TRUE
                  bare == IF line[Len(line)] = NL THEN SubSeq(line, 1, Len(line) - 1) ELSE line
              IN  bare \o <<" ">> \o x \o <<NL>>
    ELSE line

\* C29: update_pc_file turns every line starting with 'prefix=' into the
\* empty prefix assignment, appends the extra libraries to each 'Libs:' line
\* when extra libraries are given and the line does not already contain
\* them, leaves every other line unchanged and keeps the order of lines;
\* files that are not '.pc' files are left alone; applying the rewrite a
\* second time changes nothing.
C29_PcRewrite ==
    (mode = "pc" /\ out.n > 0) =>
        /\ \A n \in PcFileNames :
              LET was == ReadLines(out.before[n])
                  is == ReadLines(fs[n])
              IN  /\ Len(is) = Len(was)
                  /\ \A i \in 1..Len(was) : is[i] = Rewritten(was[i], ExtraGiven(n))
        /\ \A n \in OtherFileNames : fs[n] = out.before[n]
        /\ out.n = 2 => fs = out.before

\* a file with a prefix line and a 'Libs:' line lacking the extra libraries
\* has been rewritten twice
C29_Witness ==
    /\ mode = "pc" /\ out.n = 2
    /\ ExtraGiven("a.pc") # {}
    /\ \E i, j \in 1..Len(ReadLines(fs["a.pc"])) :
          /\ ReadLines(fs["a.pc"])[i] = <<"prefix=", NL>>
          /\ ReadLines(fs["a.pc"])[j][1] = "Libs:"
          /\ Len(ReadLines(fs["a.pc"])[j]) > 5

\* ---------------------------------------------------------------------
\* termination: the calls of Builder.run and _merge_install_paths
\* ---------------------------------------------------------------------

\* The engine is one sequential process.  Its call stack is kept in runs,
\* the innermost call last: a call of Builder.run, of _merge_install_paths
\* or of _merge_missing_files.  Only what decides which call comes next is
\* kept: the target, the trees, the directory and the rotation; a file is a
\* leaf, handled in one step.  The trees to merge are whatever the passes
\* have left in the install directories.
RunCall(name) == [fn |-> "run", name |-> name, pc |-> RunSteps(name)[1]]

\* _merge_install_paths(src_paths, dst_path, missing_files_only) at the top
\* of its loop over src_paths[0].iterdir(); ss is the order of the trees
MergeCall(ss, d, missing_files_only) ==
    [fn |-> "merge", ss |-> ss, d |-> d, missing_files_only |-> missing_files_only,
     names |-> IterDir(srcs[ss[1]].tree, d, NameOrder), pc |-> "loop"]

\* _merge_missing_files(src_paths, dst_path) with k rotations left
MissingCall(ss, d) == [fn |-> "missing", ss |-> ss, d |-> d, k |-> Len(ss) - 1]

\* the mutant: every pass is followed by the missing-file passes
StartsMissingPassAlways(missing_files_only) == TRUE

\* _merge_install_paths: 'if not missing_files_only: _merge_missing_files(...)'
StartsMissingPass(missing_files_only) == ~missing_files_only

Inner == runs[Len(runs)]

Calling(fn) == mode = "term" /\ runs # <<>> /\ Inner.fn = fn

Pop == SubSeq(runs, 1, Len(runs) - 1)

\* the call stack with its innermost call replaced by the calls cs
Go(cs) == Pop \o cs

TermInit ==
    /\ mode = "term"
    /\ req \in {[target |-> n, xcode |-> x] : n \in Range(Registry), x \in BOOLEAN}
    /\ \E n \in TreeCounts : \E S \in SUBSET Slots(n) :
          /\ Cardinality(S) <= MaxFiles
          /\ srcs = [i \in 1..n |-> [root |-> InstallRoot(i),
                                     tree |-> TreeOf(i, S, [x \in S |-> <<1>>])]]
    /\ runs = <<RunCall(req.target)>>
    /\ out = "running"
    /\ fs = <<>> /\ bs = <<>> /\ log = <<>>

Finish(stack) == IF stack = <<>> THEN "done" ELSE out

\* Builder.run: a statement before the build that calls no Builder
TermStatement ==
    /\ Calling("run") /\ Inner.pc \in {"prepare", "install", "prefix"}
    /\ LET steps == RunSteps(Inner.name)
           i == CHOOSE x \in 1..Len(steps) : steps[x] = Inner.pc
       IN  runs' = Go(<<[Inner EXCEPT !.pc = IF i < Len(steps) THEN steps[i + 1] ELSE "build"]>>)
    /\ UNCHANGED <<mode, fs, bs, req, log, srcs, out>>

\* Builder.run: Builder(['--target=cmake']).run()
TermNested ==
    /\ Calling("run") /\ Inner.pc = "nested"
    /\ LET steps == RunSteps(Inner.name)
           i == CHOOSE x \in 1..Len(steps) : steps[x] = "nested"
       IN  runs' = Go(<<[Inner EXCEPT !.pc = IF i < Len(steps) THEN steps[i + 1] ELSE "build"],
                        RunCall(DOWNLOAD_CMAKE_TARGET_NAME)>>)
    /\ UNCHANGED <<mode, fs, bs, req, log, srcs, out>>

\* Builder.run: the passes, and the merge that follows a fan-out; the run
\* of the requested target alone may be in Xcode mode
TermBuild ==
    /\ Calling("run") /\ Inner.pc = "build"
    /\ runs' = IF MultiPlatform(Inner.name) /\ ~(req.xcode /\ Len(runs) = 1)
               THEN Go(<<[Inner EXCEPT !.pc = "return"], MergeCall([i \in 1..Len(srcs) |-> i], <<>>, FALSE)>>)
               ELSE Go(<<[Inner EXCEPT !.pc = "return"]>>)
    /\ UNCHANGED <<mode, fs, bs, req, log, srcs, out>>

\* Builder.run returns
TermReturn ==
    /\ Calling("run") /\ Inner.pc = "return"
    /\ runs' = Pop
    /\ out' = Finish(Pop)
    /\ UNCHANGED <<mode, fs, bs, req, log, srcs>>

\* _merge_install_paths: one entry of src_paths[0].iterdir()
TermEntry ==
    /\ Calling("merge") /\ Inner.pc = "loop" /\ Inner.names # <<>>
    /\ LET c == Inner
           p == Append(c.d, c.names[1])
           rest == [c EXCEPT !.names = Tail(@)]
       IN  runs' = IF IsDirT(srcs[c.ss[1]].tree, p)
                   THEN Go(<<rest, MergeCall(c.ss, p, c.missing_files_only)>>)
                   ELSE Go(<<rest>>)     \* a '.la' file, a copy or _merge_file
    /\ UNCHANGED <<mode, fs, bs, req, log, srcs, out>>

\* _merge_install_paths: after the loop
TermLoopEnd ==
    /\ Calling("merge") /\ Inner.pc = "loop" /\ Inner.names = <<>>
    /\ runs' = IF StartsMissingPass(Inner.missing_files_only)
               THEN Go(<<[Inner EXCEPT !.pc = "return"], MissingCall(Inner.ss, Inner.d)>>)
               ELSE Pop
    /\ UNCHANGED <<mode, fs, bs, req, log, srcs, out>>

\* _merge_install_paths returns
TermMergeReturn ==
    /\ Calling("merge") /\ Inner.pc = "return"
    /\ runs' = Pop
    /\ UNCHANGED <<mode, fs, bs, req, log, srcs, out>>

\* _merge_missing_files: one rotation
TermRotation ==
    /\ Calling("missing") /\ Inner.k > 0
    /\ LET c == Inner
           shifted == Append(Tail(c.ss), c.ss[1])
           rest == [c EXCEPT !.ss = shifted, !.k = @ - 1]
       IN  runs' = IF ExistsT(srcs[shifted[1]].tree, c.d)
                   THEN Go(<<rest, MergeCall(shifted, c.d, TRUE)>>)
                   ELSE Go(<<rest>>)
    /\ UNCHANGED <<mode, fs, bs, req, log, srcs, out>>

\* _merge_missing_files returns
TermMissingReturn ==
    /\ Calling("missing") /\ Inner.k = 0
    /\ runs' = Pop
    /\ UNCHANGED <<mode, fs, bs, req, log, srcs, out>>

TermNext ==
    \/ TermStatement \/ TermNested \/ TermBuild \/ TermReturn
    \/ TermEntry \/ TermLoopEnd \/ TermMergeReturn
    \/ TermRotation \/ TermMissingReturn

SpecTerm == TermInit /\ [][TermNext]_vars /\ WF_vars(TermNext)

Active(fn) == {i \in 1..Len(runs) : runs[i].fn = fn}

\* at most two runs are active, the inner one the run of the cmake
\* download, which is at no nested run
NestingBounded ==
    mode = "term" =>
        /\ Cardinality(Active("run")) <= 2
        /\ \A i \in Active("run") :
              /\ i > 1 => runs[i].name = DOWNLOAD_CMAKE_TARGET_NAME
              /\ runs[i].name = DOWNLOAD_CMAKE_TARGET_NAME => runs[i].pc # "nested"

\* a pass of the missing-file kind has no call of _merge_missing_files
\* inside it, so one such call at most is active; every call of
\* _merge_install_paths inside it is of the missing-file kind and one level
\* deeper in the trees than the call around it
MergeBounded ==
    mode = "term" =>
        /\ Cardinality(Active("missing")) <= 1
        /\ \A i \in Active("missing") : \A j \in Active("merge") :
              /\ j > i => runs[j].missing_files_only
              /\ j < i => ~runs[j].missing_files_only
        /\ \A i, j \in Active("merge") :
              (i < j /\ runs[i].missing_files_only = runs[j].missing_files_only)
                  => Len(runs[i].d) < Len(runs[j].d)

Terminated == mode = "term" /\ runs = <<>> /\ out = "done"

\* C30: Builder.run terminates with a bounded nesting depth: the nested run
\* it starts for the cmake-download target starts no further nested run, so
\* at most two Builder runs are ever active; and _merge_install_paths
\* terminates on finite trees: a pass of the missing-file kind recurses over
\* directories without starting another pass of that kind.
C30_BoundedNesting == []NestingBounded /\ []MergeBounded /\ <>Terminated

\* inside the nested run of the cmake download
C30_Witness ==
    /\ mode = "term"
    /\ Cardinality(Active("run")) = 2
    /\ runs[Len(runs)].fn = "run" /\ runs[Len(runs)].pc = "return"


============================================================================
